---- MODULE Spec2Model ----
(***************************************************************************)
(* A model of slarty: the artifact repository adapters, the artifact       *)
(* namer, and the do-builds, do-deploys and deploy-assets commands.        *)
(*                                                                         *)
(* Blob names are strings "prefix-hash.ext"; they are modelled as records  *)
(* [prefix, hash, ext].  The hash of a directory listing is modelled       *)
(* collision-free: it is the set of tracked (directory, content id)        *)
(* entries that `git ls-files -s` lists.                                   *)
(***************************************************************************)
EXTENDS Integers, Sequences, FiniteSets, TLC

\* ------------------------------------------------------------------ bounds
MaxRuns == 2      \* command invocations in one behaviour
MaxFaults == 1    \* injected I/O failures in one behaviour
MaxVer == 2       \* content versions of a tracked directory (0: missing)
MaxMtime == 1     \* modification times of the files of a directory
MaxFilter == 2    \* entries of a --filter or --exclude list given to a selection function

\* ------------------------------------------------------------ value spaces
EmptyMap == [x \in {} |-> TRUE]

\* mutant: the file is left behind
osRemove_leak(f, k) == f

\* os.Remove of a file
osRemove(f, k) == [x \in (DOMAIN f) \ {k} |-> f[x]]

Put(f, k, v) == (k :> v) @@ f

\* permission bits, as the set of the bits that are on
Mode644 == {"ur", "uw", "gr", "or"}

Mode664 == {"ur", "uw", "gr", "gw", "or"}

Mode444 == {"ur", "gr", "or"}

Mode755 == {"ur", "uw", "ux", "gr", "gx", "or", "ox"}

\* the file mode creation mask of the process: none, or 022
Umasks == { {}, {"gw", "ow"} }

\* the entries of a directory tree, and the headers of an archive
File(path, content, mode) ==
    [path |-> path, type |-> "reg", content |-> content, mode |-> mode]

Dir(path, mode) == [path |-> path, type |-> "dir", content |-> 0, mode |-> mode]

\* a directory tree: whether it exists, and the entries below its root
NoDir == [exists |-> FALSE, files |-> {}]

Tree(files) == [exists |-> TRUE, files |-> files]

\* what a build command writes: the bundle of the unit, stamped by the
\* invocation that built it (the archive records modification times)
BuildOutput(unit, stamp) == Tree({File(unit.Name, stamp, Mode644)})

\* the content of a file that holds (or should hold) an archive
EmptyFile == [kind |-> "empty", entries |-> {}]

Truncated == [kind |-> "truncated", entries |-> {}]

TarGz(files) == [kind |-> "targz", entries |-> files]

\* ----------------------------------------------------------- configuration
Web == [Name |-> "web", Directories |-> <<"src/web">>, OutputDirectory |-> "build/web",
        DeployLocation |-> "deploy/web", ArtifactPrefix |-> "web"]

Api == [Name |-> "api", Directories |-> <<"src/api">>, OutputDirectory |-> "build/api",
        DeployLocation |-> "deploy/api", ArtifactPrefix |-> "api"]

\* a second unit over the directories and the prefix of Web
Admin == [Name |-> "admin", Directories |-> <<"src/web">>, OutputDirectory |-> "build/admin",
          DeployLocation |-> "deploy/admin", ArtifactPrefix |-> "web"]

AssetName == [prefix |-> "logo", hash |-> {}, ext |-> ".tar.gz"]

Logo == [Name |-> "Logo", Filename |-> AssetName, DeployLocation |-> "deploy/logo"]

\* an asset that nobody has uploaded
Font == [Name |-> "font", Filename |-> [prefix |-> "font", hash |-> {}, ext |-> ".tar.gz"],
         DeployLocation |-> "deploy/font"]

\* the "repository" section of artifacts.json
Repo(adapter, root, region, bucketName) ==
    [Adapter |-> adapter, Root |-> root, Region |-> region, BucketName |-> bucketName,
     PathPrefix |-> "artifacts/", Profile |-> ""]

LocalRepo == Repo("local", "repo", "", "")

\* sections no adapter can be made from, with or without --local
BadRepos == { Repo("local", "", "", ""), Repo("s3", "", "", "bucket"),
              Repo("S3", "", "eu-west-1", ""), Repo("ftp", "", "", "") }

\* every section the constructor is tried on
Repositories ==
    { Repo(a, root, region, b) :
        a \in {"Local", "local", "S3", "s3", "LOCAL", "ftp", ""},
        root \in {"", "repo"}, region \in {"", "eu-west-1"}, b \in {"", "bucket"} }

LocalConfigs ==
    { [Artifacts |-> <<Web, Api>>, Assets |-> <<Logo, Font>>, Repository |-> LocalRepo],
      [Artifacts |-> <<Web, Admin>>, Assets |-> <<Logo, Font>>, Repository |-> LocalRepo] }

\* the configurations of the commands: the repository is local, or no
\* adapter can be made
Configs ==
    LocalConfigs \cup
    { [Artifacts |-> <<Web, Api>>, Assets |-> <<Logo, Font>>, Repository |-> r] :
        r \in BadRepos }

Dirs == {"src/web", "src/api"}

\* the directory the commits between invocations change: the one two units share
Committed == {"src/web"}

OutDirs == {"build/web", "build/api", "build/admin"}

Locs == {"deploy/web", "deploy/api", "deploy/admin", "deploy/logo", "deploy/font"}

\* the blob of the asset that has been uploaded to the repository
AssetBlob == TarGz({Dir(".", Mode755), File("logo.png", 1, Mode644)})

\* the value of the --filter flag, already split at the commas ("" gives none)
Filters == { <<>>, <<"WEB">>, <<" Api ">>, <<"nothing">> }

AssetFilters == { <<>>, <<"LOGO">>, <<"nothing">> }

\* the value of the --exclude flag of do-cleanup, split at the commas
AssetExcludes == { <<>>, <<"logo">>, <<" Font ">> }

\* --------------------------------------------------------------- strings
ToLower(s) ==
    CASE s = "WEB" -> "web"
      [] s = " Api " -> " api "
      [] s = "Logo" -> "logo"
      [] s = "LOGO" -> "logo"
      [] s = "API" -> "api"
      [] s = " Font " -> " font "
      [] OTHER -> s

TrimSpace(s) ==
    CASE s = " api " -> "api"
      [] s = " Api " -> "Api"
      [] s = " font " -> "font"
      [] s = " Font " -> "Font"
      [] OTHER -> s

\* ------------------------------------------------------------ configuration.go
\* mutant: the first section is returned when no section has the name
GetArtifactConfig_first(artifactsConfig, artifactname) ==
    [err |-> FALSE, section |-> artifactsConfig.Artifacts[1]]

GetArtifactConfig(artifactsConfig, artifactname) ==
    LET hits == { k \in 1..Len(artifactsConfig.Artifacts) :
                    artifactsConfig.Artifacts[k].Name = artifactname }
    IN  IF hits = {}
        THEN [err |-> TRUE, section |-> Web]
        ELSE [err |-> FALSE,
              section |-> artifactsConfig.Artifacts[CHOOSE k \in hits : \A m \in hits : k <= m]]

\* mutant: the filter entry is lower-cased but not trimmed
FilterMatches_noTrim(name, filter) ==
    \E k \in 1..Len(filter) : ToLower(name) = ToLower(filter[k])

\* name == strings.TrimSpace(strings.ToLower(f)) for some entry f
FilterMatches(name, filter) ==
    \E k \in 1..Len(filter) : ToLower(name) = TrimSpace(ToLower(filter[k]))

GetByArtifactsByNameWithFilter(artifactsConfig, filter) ==
    IF Len(filter) = 0
    THEN artifactsConfig.Artifacts
    ELSE SelectSeq(artifactsConfig.Artifacts, LAMBDA a : FilterMatches(a.Name, filter))

\* ------------------------------------------------------------------ githash.go
\* a directory of the repository: index is the content id of the entries the
\* git index holds under it (0: the directory does not exist), mtime the
\* modification time of its files, untracked whether it holds a file that
\* git does not track
Checkout(v) == [index |-> v, mtime |-> 0, untracked |-> FALSE]

\* mutant: git ls-files -s -o, the untracked files are listed too
LsFiles_others(tr, directories) ==
    { <<directories[k], tr[directories[k]].index, tr[directories[k]].untracked>> :
        k \in 1..Len(directories) }

\* mutant: the listing carries the modification times
LsFiles_stat(tr, directories) ==
    { <<directories[k], tr[directories[k]].index, tr[directories[k]].mtime>> :
        k \in 1..Len(directories) }

\* git ls-files -s <directories>: mode, blob hash, stage and path of the index
\* entries under the directories, in git's own order, whatever the order of
\* the arguments
LsFiles(tr, directories) ==
    { <<directories[k], tr[directories[k]].index>> : k \in 1..Len(directories) }

\* mutant: no os.Stat, a missing directory lists nothing
HashDirectories_noStat(tr, directories) ==
    [err |-> FALSE, hash |-> LsFiles(tr, directories)]

\* os.Stat of every directory, then git hash-object of the listing
HashDirectories(tr, directories) ==
    IF \E k \in 1..Len(directories) : tr[directories[k]].index = 0
    THEN [err |-> TRUE, hash |-> {}]
    ELSE [err |-> FALSE, hash |-> LsFiles(tr, directories)]

\* the empty string returned beside an error
NoName == [prefix |-> "", hash |-> {}, ext |-> ""]

GetArtifactName(artifactname, artifactsConfig, tr) ==
    LET c == GetArtifactConfig(artifactsConfig, artifactname)
        h == HashDirectories(tr, c.section.Directories)
    IN  IF c.err \/ h.err
        THEN [err |-> TRUE, name |-> NoName]
        ELSE [err |-> FALSE,
              name |-> [prefix |-> c.section.ArtifactPrefix, hash |-> h.hash, ext |-> ".tar.gz"]]

\* ----------------------------------------------- repository.go, NewRepositoryAdapter
NoAdapter == [kind |-> "nil", root |-> "", bucketName |-> "", pathPrefix |-> ""]

NewLocalRepositoryAdapter(root) ==
    [kind |-> "local", root |-> root, bucketName |-> "", pathPrefix |-> ""]

\* awsOk: whether config.LoadDefaultConfig succeeds
NewS3RepositoryAdapter(bucketName, pathPrefix, awsOk) ==
    IF awsOk
    THEN [err |-> FALSE,
          adapter |-> [kind |-> "s3", root |-> "", bucketName |-> bucketName,
                       pathPrefix |-> pathPrefix]]
    ELSE [err |-> TRUE, adapter |-> NoAdapter]

\* mutant: the --local flag is ignored
NewRepositoryAdapter_noOverride(repository, useLocal, awsOk) ==
    IF repository.Adapter \in {"Local", "local"}
    THEN IF repository.Root = ""
         THEN [err |-> TRUE, adapter |-> NoAdapter]
         ELSE [err |-> FALSE, adapter |-> NewLocalRepositoryAdapter(repository.Root)]
    ELSE IF repository.Adapter \in {"S3", "s3"}
    THEN IF repository.Region = "" \/ repository.BucketName = ""
         THEN [err |-> TRUE, adapter |-> NoAdapter]
         ELSE NewS3RepositoryAdapter(repository.BucketName, repository.PathPrefix, awsOk)
    ELSE [err |-> TRUE, adapter |-> NoAdapter]

\* mutant: an unknown adapter type falls back to the local adapter
NewRepositoryAdapter_defaultLocal(repository, useLocal, awsOk) ==
    IF repository.Adapter \in {"S3", "s3"} /\ ~useLocal
    THEN IF repository.Region = "" \/ repository.BucketName = ""
         THEN [err |-> TRUE, adapter |-> NoAdapter]
         ELSE NewS3RepositoryAdapter(repository.BucketName, repository.PathPrefix, awsOk)
    ELSE IF repository.Root = "" /\ (useLocal \/ repository.Adapter \in {"Local", "local"})
    THEN [err |-> TRUE, adapter |-> NoAdapter]
    ELSE [err |-> FALSE, adapter |-> NewLocalRepositoryAdapter(repository.Root)]

NewRepositoryAdapter(repository, useLocal, awsOk) ==
    IF useLocal
    THEN IF repository.Root = ""
         THEN [err |-> TRUE, adapter |-> NoAdapter]
         ELSE [err |-> FALSE, adapter |-> NewLocalRepositoryAdapter(repository.Root)]
    ELSE IF repository.Adapter \in {"Local", "local"}
    THEN IF repository.Root = ""
         THEN [err |-> TRUE, adapter |-> NoAdapter]
         ELSE [err |-> FALSE, adapter |-> NewLocalRepositoryAdapter(repository.Root)]
    ELSE IF repository.Adapter \in {"S3", "s3"}
    THEN IF repository.Region = "" THEN [err |-> TRUE, adapter |-> NoAdapter]
         ELSE IF repository.BucketName = "" THEN [err |-> TRUE, adapter |-> NoAdapter]
         ELSE NewS3RepositoryAdapter(repository.BucketName, repository.PathPrefix, awsOk)
    ELSE [err |-> TRUE, adapter |-> NoAdapter]

\* --------------------------------------------------- repository.go, local adapter
StoreOutcomes == {"ok", "mkdir", "open", "create", "copy"}

\* mutant: the destination is created but nothing is copied into it
LocalStoreArtifact_noCopy(r, files, artifactPath, artifactName, io) ==
    IF io # "ok" \/ artifactPath \notin DOMAIN files THEN [err |-> TRUE, repo |-> r]
    ELSE [err |-> FALSE, repo |-> Put(r, artifactName, EmptyFile)]

\* mutant: a failed copy removes the destination file
LocalStoreArtifact_removeOnFail(r, files, artifactPath, artifactName, io) ==
    IF io \in {"mkdir", "open", "create"} \/ artifactPath \notin DOMAIN files
    THEN [err |-> TRUE, repo |-> r]
    ELSE IF io = "copy" THEN [err |-> TRUE, repo |-> osRemove(r, artifactName)]
    ELSE [err |-> FALSE, repo |-> Put(r, artifactName, files[artifactPath])]

\* files: the local filesystem outside the repository (path -> content)
LocalStoreArtifact(r, files, artifactPath, artifactName, io) ==
    IF io = "mkdir" THEN [err |-> TRUE, repo |-> r]
    ELSE IF io = "open" \/ artifactPath \notin DOMAIN files THEN [err |-> TRUE, repo |-> r]
    ELSE IF io = "create" THEN [err |-> TRUE, repo |-> r]
    ELSE IF io = "copy" THEN [err |-> TRUE, repo |-> Put(r, artifactName, Truncated)]
    ELSE [err |-> FALSE, repo |-> Put(r, artifactName, files[artifactPath])]

\* mutant: the stat result is never success
LocalArtifactExists_never(r, artifactName) == FALSE

\* mutant: the stat error is ignored
LocalArtifactExists_always(r, artifactName) == TRUE

LocalArtifactExists(r, artifactName) == artifactName \in DOMAIN r

\* ------------------------------------------------------ repository.go, S3 adapter
s3PathPrefix == "artifacts/"

TrimRightSlash(s) == IF s = "artifacts/" THEN "artifacts" ELSE s

\* mutant: the artifact name is left out of the key
getObjectKey_noName(pathPrefix, artifactName) ==
    [dir |-> TrimRightSlash(pathPrefix), name |-> AssetName]

\* the object key "prefix/name", or the bare name without a prefix
getObjectKey(pathPrefix, artifactName) ==
    IF pathPrefix = ""
    THEN [dir |-> "", name |-> artifactName]
    ELSE [dir |-> TrimRightSlash(pathPrefix), name |-> artifactName]

S3StoreOutcomes == {"ok", "open", "put"}

S3StoreArtifact(b, files, artifactPath, artifactName, io) ==
    IF io = "open" \/ artifactPath \notin DOMAIN files THEN [err |-> TRUE, bucket |-> b]
    ELSE IF io = "put" THEN [err |-> TRUE, bucket |-> b]
    ELSE [err |-> FALSE,
          bucket |-> Put(b, getObjectKey(s3PathPrefix, artifactName), files[artifactPath])]

S3ExistsOutcomes == {"ok", "fail"}

\* HeadObject: NotFound is (false, nil), any other failure is (false, err)
S3ArtifactExists(b, artifactName, io) ==
    IF io = "fail" THEN [exists |-> FALSE, err |-> TRUE]
    ELSE IF getObjectKey(s3PathPrefix, artifactName) \notin DOMAIN b
    THEN [exists |-> FALSE, err |-> FALSE]
    ELSE [exists |-> TRUE, err |-> FALSE]

\* GetObject, then os.MkdirAll of the destination's directory, os.Create and
\* io.Copy; mkdir tells whether the directory has been made
S3RetrieveArtifact(b, files, artifactName, destinationPath, io) ==
    IF getObjectKey(s3PathPrefix, artifactName) \notin DOMAIN b \/ io = "open"
    THEN [err |-> TRUE, files |-> files, mkdir |-> FALSE]
    ELSE IF io = "mkdir" THEN [err |-> TRUE, files |-> files, mkdir |-> FALSE]
    ELSE IF io = "create" THEN [err |-> TRUE, files |-> files, mkdir |-> TRUE]
    ELSE IF io = "copy"
    THEN [err |-> TRUE, files |-> Put(files, destinationPath, Truncated), mkdir |-> TRUE]
    ELSE [err |-> FALSE,
          files |-> Put(files, destinationPath, b[getObjectKey(s3PathPrefix, artifactName)]),
          mkdir |-> TRUE]

\* ------------------------------------------------------------------ doBuilds.go
PackOutcomes == {"ok", "io"}

\* filepath.Walk visits the root (relative path ".") and everything below it;
\* every visited entry gets a header, a regular file also its content
zipDirectory(dir, io) ==
    IF ~dir.exists \/ io = "io"
    THEN [err |-> TRUE, blob |-> Truncated]
    ELSE [err |-> FALSE, blob |-> TarGz({Dir(".", Mode755)} \cup dir.files)]

\* mutants: the existence test inverted; the force flag ignored
BuildNeeded_inverted(frc, exists) == frc \/ exists

BuildNeeded_noForce(frc, exists) == ~exists

BuildNeeded(frc, exists) == frc \/ ~exists

\* mutant: cmd.Start() without Wait, the command keeps running
cmdStart(running, k) == running

\* cmd.Run() waits for the command: when it returns the command runs no more
cmdRun(running, k) == running \ {k}

\* mutant: the error of cmd.Run() is ignored
BuildSucceeded_always(code) == TRUE

\* err == nil after cmd.Run()
BuildSucceeded(code) == code = 0

FreshTemp(files) == CHOOSE k \in 1..(Cardinality(DOMAIN files) + 1) : k \notin DOMAIN files

\* ------------------------------------------- repository.go, local adapter (retrieve)
RetrieveOutcomes == {"ok", "mkdir", "open", "create", "copy"}

\* mutant: the destination is created, the content is never copied
LocalRetrieveArtifact_noCopy(r, files, artifactName, destinationPath, io) ==
    IF artifactName \notin DOMAIN r THEN [err |-> TRUE, files |-> files, mkdir |-> FALSE]
    ELSE IF io = "mkdir" THEN [err |-> TRUE, files |-> files, mkdir |-> FALSE]
    ELSE IF io \in {"open", "create"} THEN [err |-> TRUE, files |-> files, mkdir |-> TRUE]
    ELSE [err |-> io = "copy", files |-> Put(files, destinationPath, Truncated), mkdir |-> TRUE]

\* mutant: the destination is created before the repository is looked at
LocalRetrieveArtifact_createFirst(r, files, artifactName, destinationPath, io) ==
    IF artifactName \notin DOMAIN r
    THEN [err |-> TRUE, files |-> Put(files, destinationPath, Truncated), mkdir |-> TRUE]
    ELSE IF io = "mkdir" THEN [err |-> TRUE, files |-> files, mkdir |-> FALSE]
    ELSE IF io \in {"open", "create"} THEN [err |-> TRUE, files |-> files, mkdir |-> TRUE]
    ELSE IF io = "copy"
    THEN [err |-> TRUE, files |-> Put(files, destinationPath, Truncated), mkdir |-> TRUE]
    ELSE [err |-> FALSE, files |-> Put(files, destinationPath, r[artifactName]), mkdir |-> TRUE]

\* os.Stat of the entry, then os.MkdirAll of the destination's directory,
\* os.Open, os.Create and io.Copy; mkdir tells whether the directory has been made
LocalRetrieveArtifact(r, files, artifactName, destinationPath, io) ==
    IF artifactName \notin DOMAIN r THEN [err |-> TRUE, files |-> files, mkdir |-> FALSE]
    ELSE IF io = "mkdir" THEN [err |-> TRUE, files |-> files, mkdir |-> FALSE]
    ELSE IF io \in {"open", "create"} THEN [err |-> TRUE, files |-> files, mkdir |-> TRUE]
    ELSE IF io = "copy"
    THEN [err |-> TRUE, files |-> Put(files, destinationPath, Truncated), mkdir |-> TRUE]
    ELSE [err |-> FALSE, files |-> Put(files, destinationPath, r[artifactName]), mkdir |-> TRUE]

\* ------------------------------------------------------- doDeploys.go, tar.gz version
Paths(files) == { e.path : e \in files }

\* filepath.Dir of a relative path
Parent(path) == IF path = "sub/b.txt" THEN "sub" ELSE "."

\* the order of filepath.Walk, which is the order of the headers in an archive
WalkOrder == <<".", "a.txt", "admin", "api", "logo.png", "old.txt", "sub", "sub/b.txt", "web">>

Rank(path) == CHOOSE k \in 1..Len(WalkOrder) : WalkOrder[k] = path

At(files, path) == CHOOSE e \in files : e.path = path

\* extractTarFile cannot write the header e over what is there: MkdirAll over a
\* regular file, OpenFile over a directory or over a file that is not writable
Blocked(old, e) ==
    \/ /\ e.path \in Paths(old)
       /\ \/ At(old, e.path).type # e.type
          \/ e.type = "reg" /\ "uw" \notin At(old, e.path).mode
    \/ /\ e.type = "reg"
       /\ Parent(e.path) \in Paths(old)
       /\ At(old, Parent(e.path)).type # "dir"

\* extractTarFile of one header: MkdirAll(0755) of a directory (or of the
\* parent of a regular file) creates what is missing and leaves what exists;
\* OpenFile(O_WRONLY|O_CREATE|O_TRUNC, header.Mode) rewrites the content, with
\* the mode of the header, less the umask, only when it creates the file
Extracted(old, e, umask) ==
    IF e.type = "dir"
    THEN IF e.path = "." \/ e.path \in Paths(old)
         THEN {}
         ELSE {Dir(e.path, Mode755 \ umask)}
    ELSE { File(e.path, e.content,
                IF e.path \in Paths(old) THEN At(old, e.path).mode ELSE e.mode \ umask) }
         \cup (IF Parent(e.path) = "." \/ Parent(e.path) \in Paths(old)
               THEN {}
               ELSE {Dir(Parent(e.path), Mode755 \ umask)})

\* mutant: the destination is emptied before the extraction
Overlay_clean(old, entries, umask) == UNION { Extracted({}, e, umask) : e \in entries }

\* the headers are extracted in archive order over what the destination holds;
\* what the archive does not name is left as it was
Overlay(old, entries, umask) ==
    LET new == UNION { Extracted(old, e, umask) : e \in entries }
    IN  new \cup { o \in old : o.path \notin Paths(new) }

\* the headers that precede the first one that cannot be written
BeforeBlocked(old, entries) ==
    { e \in entries : \A b \in entries : Blocked(old, b) => Rank(e.path) < Rank(b.path) }

UnzipOutcomes == {"ok", "io"}

\* mutant: a failure while extracting is not returned
unzipFile_ignoreError(files, tarGzPath, dest, umask, io) ==
    IF tarGzPath \notin DOMAIN files THEN [err |-> TRUE, dir |-> dest]
    ELSE IF files[tarGzPath].kind # "targz" THEN [err |-> TRUE, dir |-> dest]
    ELSE IF io = "io" THEN [err |-> FALSE, dir |-> Tree(dest.files)]
    ELSE [err |-> FALSE, dir |-> Tree(Overlay(dest.files, files[tarGzPath].entries, umask))]

\* an archive that is no gzip stream fails before the destination is created;
\* a failure of the reader (here: at the first header) or a header that cannot
\* be written leaves behind the destination with what was extracted before it
unzipFile(files, tarGzPath, dest, umask, io) ==
    IF tarGzPath \notin DOMAIN files THEN [err |-> TRUE, dir |-> dest]
    ELSE IF files[tarGzPath].kind # "targz" THEN [err |-> TRUE, dir |-> dest]
    ELSE IF io = "io" THEN [err |-> TRUE, dir |-> Tree(dest.files)]
    ELSE LET entries == files[tarGzPath].entries
         IN  IF \E e \in entries : Blocked(dest.files, e)
             THEN [err |-> TRUE,
                   dir |-> Tree(Overlay(dest.files, BeforeBlocked(dest.files, entries), umask))]
             ELSE [err |-> FALSE, dir |-> Tree(Overlay(dest.files, entries, umask))]

\* ------------------------------------------------------------------ deployAssets.go
filterAssetsByName(all, filter) ==
    IF Len(filter) = 0
    THEN all
    ELSE SelectSeq(all, LAMBDA a : FilterMatches(a.Name, filter))

\* ------------------------------------------------------------------ doCleanup.go
\* mutant: an asset the filter names is kept even when an exclude entry names it
filterAssetsByNameWithExclusion_filterFirst(all, filter, exclude) ==
    IF Len(filter) = 0 /\ Len(exclude) = 0
    THEN all
    ELSE SelectSeq(all, LAMBDA a :
            IF Len(filter) = 0 THEN ~FilterMatches(a.Name, exclude)
            ELSE FilterMatches(a.Name, filter))

filterAssetsByNameWithExclusion(all, filter, exclude) ==
    IF Len(filter) = 0 /\ Len(exclude) = 0
    THEN all
    ELSE SelectSeq(all, LAMBDA a :
            /\ ~FilterMatches(a.Name, exclude)
            /\ Len(filter) = 0 \/ FilterMatches(a.Name, filter))

VARIABLES
    config,             \* the artifacts.json in force
    tracked,            \* the index and the working tree under each directory
    faults,             \* I/O failures injected so far
    outdir,             \* the output directories
    repo,               \* the local repository: blob name -> content
    tmp,                \* temporary files: path -> content
    runs,               \* invocations started so far
    cmd, pc,            \* the running command and its position
    force,              \* its --force flag
    artifacts,          \* the selected units
    i,                  \* index of the running loop
    artifactNames, buildNeeded,
    successfulBuilds, totalBuildsNeeded,
    tempTarGzPath,
    exitStatus,         \* -1 while running, then the process's exit status
    obs,                \* what happened to each selected unit in this invocation
    storeLog,           \* every successful store of do-builds, oldest first
    deployed,           \* the deploy locations
    assets,             \* the selected assets
    bucket,             \* the S3 bucket: object key -> content
    passed,             \* the names passed to StoreArtifact so far, per backend
    last                \* the last adapter call made directly, and its result

envVars == <<config, tracked, faults>>

runVars == <<runs, cmd, force, artifacts, assets>>

libVars == <<bucket, passed, last>>

vars == <<config, tracked, faults, outdir, repo, tmp, runs, cmd, pc, force,
          artifacts, i, artifactNames, buildNeeded, successfulBuilds,
          totalBuildsNeeded, tempTarGzPath, exitStatus, obs, storeLog, deployed, assets,
          bucket, passed, last>>

NoCall == [op |-> "none", backend |-> "none", name |-> AssetName, err |-> FALSE,
           exists |-> FALSE, afterStore |-> FALSE]

NoObs == [existed |-> EmptyMap, reported |-> EmptyMap, running |-> {}, started |-> <<>>,
          ran |-> {}, failed |-> {}, tempFailed |-> {}, packFailed |-> {},
          packed |-> {}, storeCalled |-> {}, stored |-> {},
          cleaned |-> {}, storedAs |-> EmptyMap, retrieved |-> {},
          extracted |-> {},
          logStart |-> 0, adapterErr |-> FALSE, noneFound |-> FALSE]

Init ==
    /\ config \in Configs
    /\ tracked = [d \in Dirs |-> Checkout(1)]
    /\ faults = 0
    /\ outdir = [o \in OutDirs |-> NoDir]
    /\ repo = Put(EmptyMap, AssetName, AssetBlob)
    /\ tmp = EmptyMap
    /\ deployed = [l \in Locs |-> NoDir]
    /\ assets = <<>>
    /\ bucket = EmptyMap
    /\ passed = {}
    /\ last = NoCall
    /\ runs = 0
    /\ cmd = "none"
    /\ pc = "idle"
    /\ force = FALSE
    /\ artifacts = <<>>
    /\ i = 1
    /\ artifactNames = EmptyMap
    /\ buildNeeded = EmptyMap
    /\ successfulBuilds = 0
    /\ totalBuildsNeeded = 0
    /\ tempTarGzPath = 0
    /\ exitStatus = -1
    /\ obs = NoObs
    /\ storeLog = <<>>

\* an I/O operation of the environment fails, within the budget
Inject(failed) ==
    /\ failed => faults < MaxFaults
    /\ faults' = IF failed THEN faults + 1 ELSE faults

Idle == pc \in {"idle", "done", "fatal"}

\* after an invocation has ended (its process and locals are gone), a commit
\* changes what is tracked under a directory
ChangeTracked(d, v) ==
    /\ pc \in {"done", "fatal"}
    /\ runs < MaxRuns
    /\ v # tracked[d].index
    /\ tracked' = [tracked EXCEPT ![d].index = v]
    /\ cmd' = "none"
    /\ pc' = "idle"
    /\ force' = FALSE
    /\ artifacts' = <<>>
    /\ assets' = <<>>
    /\ i' = 1
    /\ artifactNames' = EmptyMap
    /\ buildNeeded' = EmptyMap
    /\ successfulBuilds' = 0
    /\ totalBuildsNeeded' = 0
    /\ tempTarGzPath' = 0
    /\ exitStatus' = -1
    /\ obs' = NoObs
    /\ UNCHANGED <<config, faults, libVars, deployed, outdir, repo, tmp, runs, storeLog>>

\* runDoBuilds, lines 51-80: configuration, adapter, filter, selection
StartDoBuilds(f, frc, useLocal, awsOk) ==
    /\ Idle
    /\ runs < MaxRuns
    /\ runs' = runs + 1
    /\ cmd' = "do-builds"
    /\ force' = frc
    /\ IF NewRepositoryAdapter(config.Repository, useLocal, awsOk).err
       THEN /\ artifacts' = <<>>
            /\ assets' = <<>>
            /\ pc' = "fatal" /\ exitStatus' = 1
            /\ obs' = [NoObs EXCEPT !.logStart = Len(storeLog), !.adapterErr = TRUE]
       ELSE /\ artifacts' = GetByArtifactsByNameWithFilter(config, f)
            /\ assets' = <<>>
            /\ IF Len(artifacts') = 0
               THEN pc' = "done" /\ exitStatus' = 0
               ELSE pc' = "check" /\ exitStatus' = -1
            /\ obs' = [NoObs EXCEPT !.logStart = Len(storeLog),
                                     !.noneFound = Len(artifacts') = 0]
    /\ i' = 1
    /\ artifactNames' = EmptyMap
    /\ buildNeeded' = EmptyMap
    /\ successfulBuilds' = 0
    /\ totalBuildsNeeded' = 0
    /\ tempTarGzPath' = 0
    /\ UNCHANGED <<envVars, libVars, deployed, outdir, repo, tmp, storeLog>>

\* one iteration of the existence loop, lines 83-102; after the last one, the
\* count of lines 105-113
CheckArtifact ==
    /\ cmd = "do-builds" /\ pc = "check"
    /\ LET artifact == artifacts[i]
           r == GetArtifactName(artifact.Name, config, tracked)
           exists == LocalArtifactExists(repo, r.name)
           names == Put(artifactNames, artifact.Name, r.name)
           needed == Put(buildNeeded, artifact.Name, BuildNeeded(force, exists))
       IN  IF r.err
           THEN /\ pc' = "fatal"
                /\ exitStatus' = 1
                /\ UNCHANGED <<i, artifactNames, buildNeeded, totalBuildsNeeded, obs>>
           ELSE /\ artifactNames' = names
                /\ buildNeeded' = needed
                /\ obs' = [obs EXCEPT !.existed = Put(@, i, r.name \in DOMAIN repo),
                                      !.reported = Put(@, i, IF needed[artifact.Name]
                                                             THEN "YES" ELSE "NO")]
                /\ IF i = Len(artifacts)
                   THEN /\ pc' = "build"
                        /\ i' = 1
                        /\ totalBuildsNeeded' =
                             Cardinality({ k \in 1..Len(artifacts) : needed[artifacts[k].Name] })
                   ELSE /\ pc' = "check"
                        /\ i' = i + 1
                        /\ UNCHANGED totalBuildsNeeded
                /\ UNCHANGED exitStatus
    /\ UNCHANGED <<envVars, libVars, deployed, runVars, outdir, repo, tmp, successfulBuilds, tempTarGzPath,
                   storeLog>>

\* the head of the build loop, lines 116-130: skip, start the command, or return
BuildLoop ==
    /\ cmd = "do-builds" /\ pc = "build"
    /\ IF i > Len(artifacts)
       THEN pc' = "done" /\ exitStatus' = 0 /\ UNCHANGED <<i, obs>>
       ELSE IF ~buildNeeded[artifacts[i].Name]
       THEN pc' = "build" /\ i' = i + 1 /\ UNCHANGED <<exitStatus, obs>>
       ELSE /\ pc' = "running"
            /\ obs' = [obs EXCEPT !.running = @ \cup {i}, !.started = Append(@, i)]
            /\ UNCHANGED <<i, exitStatus>>
    /\ UNCHANGED <<envVars, libVars, deployed, runVars, outdir, repo, tmp, artifactNames, buildNeeded,
                   successfulBuilds, totalBuildsNeeded, tempTarGzPath, storeLog>>

\* the build command returns, lines 130-136; a command that succeeds has
\* written the output directory
BuildReturns(code) ==
    /\ cmd = "do-builds" /\ pc = "running"
    /\ outdir' = [outdir EXCEPT ![artifacts[i].OutputDirectory] =
                    IF code = 0 THEN BuildOutput(artifacts[i], runs) ELSE @]
    /\ obs' = [obs EXCEPT !.running = cmdRun(@, i), !.ran = @ \cup {i},
                          !.failed = IF code # 0 THEN @ \cup {i} ELSE @]
    /\ IF ~BuildSucceeded(code)
       THEN pc' = "build" /\ i' = i + 1
       ELSE pc' = "mktemp" /\ UNCHANGED i
    /\ UNCHANGED <<envVars, libVars, deployed, runVars, repo, tmp, artifactNames, buildNeeded,
                   successfulBuilds, totalBuildsNeeded, tempTarGzPath, exitStatus,
                   storeLog>>

\* os.CreateTemp, lines 139-145
BuildCreateTemp(ok) ==
    /\ cmd = "do-builds" /\ pc = "mktemp"
    /\ Inject(~ok)
    /\ IF ok
       THEN /\ tempTarGzPath' = FreshTemp(tmp)
            /\ tmp' = Put(tmp, tempTarGzPath', EmptyFile)
            /\ pc' = "pack"
            /\ UNCHANGED i
       ELSE /\ pc' = "build"
            /\ i' = i + 1
            /\ UNCHANGED <<tmp, tempTarGzPath>>
    /\ obs' = [obs EXCEPT !.tempFailed = IF ok THEN @ ELSE @ \cup {i}]
    /\ UNCHANGED <<config, tracked, libVars, deployed, runVars, outdir, repo, artifactNames, buildNeeded,
                   successfulBuilds, totalBuildsNeeded, exitStatus, storeLog>>

\* zipDirectory of the output directory, lines 148-153
BuildPack(io) ==
    /\ cmd = "do-builds" /\ pc = "pack"
    /\ Inject(io # "ok")
    /\ LET r == zipDirectory(outdir[artifacts[i].OutputDirectory], io)
       IN  IF r.err
           THEN /\ tmp' = osRemove(tmp, tempTarGzPath)
                /\ pc' = "build"
                /\ i' = i + 1
                /\ obs' = [obs EXCEPT !.packFailed = @ \cup {i}]
           ELSE /\ tmp' = [tmp EXCEPT ![tempTarGzPath] = r.blob]
                /\ pc' = "store"
                /\ obs' = [obs EXCEPT !.packed = @ \cup {i}]
                /\ UNCHANGED i
    /\ UNCHANGED <<config, tracked, libVars, deployed, runVars, outdir, repo, artifactNames, buildNeeded,
                   successfulBuilds, totalBuildsNeeded, tempTarGzPath, exitStatus,
                   storeLog>>

\* StoreArtifact under the name computed by the existence loop, lines 156-161
BuildStore(io) ==
    /\ cmd = "do-builds" /\ pc = "store"
    /\ Inject(io # "ok")
    /\ LET name == artifactNames[artifacts[i].Name]
           r == LocalStoreArtifact(repo, tmp, tempTarGzPath, name, io)
       IN  /\ repo' = r.repo
           /\ IF r.err
              THEN /\ tmp' = osRemove(tmp, tempTarGzPath)
                   /\ pc' = "build"
                   /\ i' = i + 1
                   /\ obs' = [obs EXCEPT !.storeCalled = @ \cup {i}]
                   /\ UNCHANGED storeLog
              ELSE /\ pc' = "cleanup"
                   /\ obs' = [obs EXCEPT !.storeCalled = @ \cup {i}, !.stored = @ \cup {i},
                                         !.storedAs = Put(@, i,
                                            [name |-> name,
                                             blob |-> IF name \in DOMAIN r.repo
                                                      THEN r.repo[name] ELSE EmptyFile])]
                   /\ storeLog' = Append(storeLog, [unit |-> artifacts[i].Name, name |-> name,
                                                    forced |-> force, run |-> runs])
                   /\ UNCHANGED <<tmp, i>>
    /\ UNCHANGED <<config, tracked, libVars, deployed, runVars, outdir, artifactNames, buildNeeded,
                   successfulBuilds, totalBuildsNeeded, tempTarGzPath, exitStatus>>

\* the removal of the temporary file and the progress count, lines 164-178
BuildCleanup ==
    /\ cmd = "do-builds" /\ pc = "cleanup"
    /\ tmp' = osRemove(tmp, tempTarGzPath)
    /\ successfulBuilds' = successfulBuilds + 1
    /\ obs' = [obs EXCEPT !.cleaned = @ \cup {i}]
    /\ pc' = "build"
    /\ i' = i + 1
    /\ UNCHANGED <<envVars, libVars, deployed, runVars, outdir, repo, artifactNames, buildNeeded,
                   totalBuildsNeeded, tempTarGzPath, exitStatus, storeLog>>

\* ------------------------------------------------------------------ shouldBuild.go (part_000)
\* runShouldBuild, lines 44-66: configuration, adapter, filter, selection
StartShouldBuild(f, useLocal, awsOk) ==
    /\ Idle
    /\ runs < MaxRuns
    /\ runs' = runs + 1
    /\ cmd' = "should-build"
    /\ force' = FALSE
    /\ IF NewRepositoryAdapter(config.Repository, useLocal, awsOk).err
       THEN /\ artifacts' = <<>>
            /\ assets' = <<>>
            /\ pc' = "fatal" /\ exitStatus' = 1
            /\ obs' = [NoObs EXCEPT !.logStart = Len(storeLog), !.adapterErr = TRUE]
       ELSE /\ artifacts' = GetByArtifactsByNameWithFilter(config, f)
            /\ assets' = <<>>
            /\ IF Len(artifacts') = 0
               THEN pc' = "done" /\ exitStatus' = 0
               ELSE pc' = "check" /\ exitStatus' = -1
            /\ obs' = [NoObs EXCEPT !.logStart = Len(storeLog),
                                     !.noneFound = Len(artifacts') = 0]
    /\ i' = 1
    /\ artifactNames' = EmptyMap
    /\ buildNeeded' = EmptyMap
    /\ successfulBuilds' = 0
    /\ totalBuildsNeeded' = 0
    /\ tempTarGzPath' = 0
    /\ UNCHANGED <<envVars, libVars, deployed, outdir, repo, tmp, storeLog>>

\* one iteration of the existence loop, lines 72-90; after the last one the
\* table is printed, lines 92-119
ShouldBuildCheck ==
    /\ cmd = "should-build" /\ pc = "check"
    /\ LET artifact == artifacts[i]
           r == GetArtifactName(artifact.Name, config, tracked)
           exists == LocalArtifactExists(repo, r.name)
       IN  IF r.err
           THEN /\ pc' = "fatal"
                /\ exitStatus' = 1
                /\ UNCHANGED <<i, artifactNames, buildNeeded, obs>>
           ELSE /\ artifactNames' = Put(artifactNames, artifact.Name, r.name)
                /\ buildNeeded' = Put(buildNeeded, artifact.Name, ~exists)
                /\ obs' = [obs EXCEPT !.existed = Put(@, i, exists),
                                      !.reported = Put(@, i, IF ~exists THEN "YES" ELSE "NO")]
                /\ IF i = Len(artifacts)
                   THEN pc' = "done" /\ exitStatus' = 0 /\ UNCHANGED i
                   ELSE pc' = "check" /\ i' = i + 1 /\ UNCHANGED exitStatus
    /\ UNCHANGED <<envVars, libVars, deployed, runVars, outdir, repo, tmp, successfulBuilds,
                   totalBuildsNeeded, tempTarGzPath, storeLog>>

\* ------------------------------------------------------------------ artifactNames.go
\* strings.Split(filter, ",") on the flag as it is: the unset flag, the empty
\* string, gives one empty entry
splitFlag(f) == IF Len(f) = 0 THEN <<"">> ELSE f

\* runArtifactNames: configuration, filter, selection, the name of every
\* selected unit, the table
ArtifactNames(f) ==
    /\ Idle
    /\ runs < MaxRuns
    /\ runs' = runs + 1
    /\ cmd' = "artifact-names"
    /\ force' = FALSE
    /\ artifacts' = GetByArtifactsByNameWithFilter(config, splitFlag(f))
    /\ assets' = <<>>
    /\ IF \E k \in 1..Len(artifacts') : GetArtifactName(artifacts'[k].Name, config, tracked).err
       THEN /\ pc' = "fatal" /\ exitStatus' = 1
            /\ artifactNames' = EmptyMap
            /\ obs' = [NoObs EXCEPT !.logStart = Len(storeLog)]
       ELSE /\ pc' = "done" /\ exitStatus' = 0
            /\ artifactNames' = [n \in { artifacts'[k].Name : k \in 1..Len(artifacts') } |->
                                   GetArtifactName(n, config, tracked).name]
            /\ obs' = [NoObs EXCEPT !.logStart = Len(storeLog),
                                     !.noneFound = Len(artifacts') = 0]
    /\ i' = 1
    /\ buildNeeded' = EmptyMap
    /\ successfulBuilds' = 0
    /\ totalBuildsNeeded' = 0
    /\ tempTarGzPath' = 0
    /\ UNCHANGED <<envVars, libVars, deployed, outdir, repo, tmp, storeLog>>

\* ------------------------------------------------------------------ hashApplication.go
\* runHashApplication: configuration, filter, selection, the hash of the
\* directories of every selected unit, the table
HashApplication(f) ==
    /\ Idle
    /\ runs < MaxRuns
    /\ runs' = runs + 1
    /\ cmd' = "hash-application"
    /\ force' = FALSE
    /\ artifacts' = GetByArtifactsByNameWithFilter(config, f)
    /\ assets' = <<>>
    /\ IF \E k \in 1..Len(artifacts') : HashDirectories(tracked, artifacts'[k].Directories).err
       THEN /\ pc' = "fatal" /\ exitStatus' = 1
            /\ obs' = [NoObs EXCEPT !.logStart = Len(storeLog)]
       ELSE /\ pc' = "done" /\ exitStatus' = 0
            /\ obs' = [NoObs EXCEPT !.logStart = Len(storeLog),
                                     !.noneFound = Len(artifacts') = 0]
    /\ i' = 1
    /\ artifactNames' = EmptyMap
    /\ buildNeeded' = EmptyMap
    /\ successfulBuilds' = 0
    /\ totalBuildsNeeded' = 0
    /\ tempTarGzPath' = 0
    /\ UNCHANGED <<envVars, libVars, deployed, outdir, repo, tmp, storeLog>>

\* runDoDeploys, lines 345-373: configuration, adapter, filter, selection
StartDoDeploys(f, useLocal, awsOk) ==
    /\ Idle
    /\ runs < MaxRuns
    /\ runs' = runs + 1
    /\ cmd' = "do-deploys"
    /\ force' = FALSE
    /\ IF NewRepositoryAdapter(config.Repository, useLocal, awsOk).err
       THEN /\ artifacts' = <<>>
            /\ assets' = <<>>
            /\ pc' = "fatal" /\ exitStatus' = 1
            /\ obs' = [NoObs EXCEPT !.logStart = Len(storeLog), !.adapterErr = TRUE]
       ELSE /\ artifacts' = GetByArtifactsByNameWithFilter(config, f)
            /\ assets' = <<>>
            /\ IF Len(artifacts') = 0
               THEN pc' = "done" /\ exitStatus' = 0
               ELSE pc' = "check" /\ exitStatus' = -1
            /\ obs' = [NoObs EXCEPT !.logStart = Len(storeLog),
                                     !.noneFound = Len(artifacts') = 0]
    /\ i' = 1
    /\ artifactNames' = EmptyMap
    /\ buildNeeded' = EmptyMap
    /\ successfulBuilds' = 0
    /\ totalBuildsNeeded' = 0
    /\ tempTarGzPath' = 0
    /\ UNCHANGED <<envVars, libVars, deployed, outdir, repo, tmp, storeLog>>

\* one iteration of the existence loop, lines 376-393
DeployCheck ==
    /\ cmd = "do-deploys" /\ pc = "check"
    /\ LET artifact == artifacts[i]
           r == GetArtifactName(artifact.Name, config, tracked)
       IN  IF r.err
           THEN /\ pc' = "fatal"
                /\ exitStatus' = 1
                /\ UNCHANGED <<i, artifactNames, obs>>
           ELSE /\ artifactNames' = Put(artifactNames, artifact.Name, r.name)
                /\ obs' = [obs EXCEPT !.existed = Put(@, i, r.name \in DOMAIN repo)]
                /\ IF ~LocalArtifactExists(repo, r.name)
                   THEN pc' = "fatal" /\ exitStatus' = 1 /\ UNCHANGED i
                   ELSE IF i = Len(artifacts)
                   THEN pc' = "mktemp" /\ i' = 1 /\ UNCHANGED exitStatus
                   ELSE pc' = "check" /\ i' = i + 1 /\ UNCHANGED exitStatus
    /\ UNCHANGED <<envVars, libVars, deployed, runVars, outdir, repo, tmp, buildNeeded,
                   successfulBuilds, totalBuildsNeeded, tempTarGzPath, storeLog>>

\* os.CreateTemp, lines 401-406
DeployCreateTemp(ok) ==
    /\ cmd = "do-deploys" /\ pc = "mktemp"
    /\ Inject(~ok)
    /\ IF ok
       THEN /\ tempTarGzPath' = FreshTemp(tmp)
            /\ tmp' = Put(tmp, tempTarGzPath', EmptyFile)
            /\ pc' = "retrieve"
            /\ UNCHANGED exitStatus
       ELSE /\ pc' = "fatal"
            /\ exitStatus' = 1
            /\ UNCHANGED <<tmp, tempTarGzPath>>
    /\ UNCHANGED <<config, tracked, libVars, deployed, runVars, outdir, repo, i, artifactNames,
                   buildNeeded, successfulBuilds, totalBuildsNeeded, obs, storeLog>>

\* mutant: the blob is moved out of the repository, not copied
DeployRetrieve_move(io) ==
    /\ cmd = "do-deploys" /\ pc = "retrieve"
    /\ Inject(io # "ok")
    /\ LET name == artifactNames[artifacts[i].Name]
           r == LocalRetrieveArtifact(repo, tmp, name, tempTarGzPath, io)
       IN  IF r.err
           THEN /\ tmp' = osRemove(r.files, tempTarGzPath)
                /\ pc' = "fatal"
                /\ exitStatus' = 1
                /\ obs' = [obs EXCEPT !.failed = IF io # "ok" THEN @ \cup {i} ELSE @]
                /\ UNCHANGED repo
           ELSE /\ tmp' = r.files
                /\ repo' = osRemove(repo, name)
                /\ pc' = "extract"
                /\ obs' = [obs EXCEPT !.retrieved = @ \cup {i},
                                      !.failed = IF io # "ok" THEN @ \cup {i} ELSE @]
                /\ UNCHANGED exitStatus
    /\ UNCHANGED <<config, tracked, libVars, deployed, runVars, outdir, i, artifactNames,
                   buildNeeded, successfulBuilds, totalBuildsNeeded, tempTarGzPath,
                   storeLog>>

\* RetrieveArtifact into the temporary file, lines 409-414
DeployRetrieve(io) ==
    /\ cmd = "do-deploys" /\ pc = "retrieve"
    /\ Inject(io # "ok")
    /\ LET r == LocalRetrieveArtifact(repo, tmp, artifactNames[artifacts[i].Name],
                                      tempTarGzPath, io)
       IN  IF r.err
           THEN /\ tmp' = osRemove(r.files, tempTarGzPath)
                /\ pc' = "fatal"
                /\ exitStatus' = 1
                /\ obs' = [obs EXCEPT !.failed = IF io # "ok" THEN @ \cup {i} ELSE @]
           ELSE /\ tmp' = r.files
                /\ pc' = "extract"
                /\ obs' = [obs EXCEPT !.retrieved = @ \cup {i},
                                      !.failed = IF io # "ok" THEN @ \cup {i} ELSE @]
                /\ UNCHANGED exitStatus
    /\ UNCHANGED <<config, tracked, libVars, deployed, runVars, outdir, repo, i, artifactNames,
                   buildNeeded, successfulBuilds, totalBuildsNeeded, tempTarGzPath,
                   storeLog>>

\* os.MkdirAll of the deploy location, unzipFile, and the removal of the
\* temporary file, lines 417-435
DeployExtract(mkdirOk, umask, io) ==
    /\ cmd = "do-deploys" /\ pc = "extract"
    /\ Inject(~mkdirOk \/ io # "ok")
    /\ LET loc == artifacts[i].DeployLocation
           made == Tree(deployed[loc].files)
           r == unzipFile(tmp, tempTarGzPath, made, umask, io)
           seen == [obs EXCEPT !.failed = IF ~mkdirOk \/ io # "ok" THEN @ \cup {i} ELSE @]
       IN  /\ tmp' = osRemove(tmp, tempTarGzPath)
           /\ IF ~mkdirOk
              THEN pc' = "fatal" /\ exitStatus' = 1 /\ obs' = seen /\ UNCHANGED <<deployed, i>>
              ELSE /\ deployed' = [deployed EXCEPT ![loc] = r.dir]
                   /\ IF r.err
                      THEN pc' = "fatal" /\ exitStatus' = 1 /\ obs' = seen /\ UNCHANGED i
                      ELSE /\ obs' = [seen EXCEPT !.extracted = @ \cup {i}]
                           /\ i' = i + 1
                           /\ IF i = Len(artifacts)
                              THEN pc' = "done" /\ exitStatus' = 0
                              ELSE pc' = "mktemp" /\ UNCHANGED exitStatus
    /\ UNCHANGED <<config, tracked, libVars, runVars, outdir, repo, artifactNames,
                   buildNeeded, successfulBuilds, totalBuildsNeeded, tempTarGzPath,
                   storeLog>>

\* runDeployAssets, lines 65-90: configuration, adapter, filter, selection
StartDeployAssets(f, useLocal, awsOk) ==
    /\ Idle
    /\ runs < MaxRuns
    /\ runs' = runs + 1
    /\ cmd' = "deploy-assets"
    /\ force' = FALSE
    /\ IF NewRepositoryAdapter(config.Repository, useLocal, awsOk).err
       THEN /\ artifacts' = <<>>
            /\ assets' = <<>>
            /\ pc' = "fatal" /\ exitStatus' = 1
            /\ obs' = [NoObs EXCEPT !.logStart = Len(storeLog), !.adapterErr = TRUE]
       ELSE /\ artifacts' = <<>>
            /\ assets' = filterAssetsByName(config.Assets, f)
            /\ IF Len(assets') = 0
               THEN pc' = "done" /\ exitStatus' = 0
               ELSE pc' = "check" /\ exitStatus' = -1
            /\ obs' = [NoObs EXCEPT !.logStart = Len(storeLog),
                                     !.noneFound = Len(assets') = 0]
    /\ i' = 1
    /\ artifactNames' = EmptyMap
    /\ buildNeeded' = EmptyMap
    /\ successfulBuilds' = 0
    /\ totalBuildsNeeded' = 0
    /\ tempTarGzPath' = 0
    /\ UNCHANGED <<envVars, libVars, deployed, outdir, repo, tmp, storeLog>>

\* the existence check at the head of the asset loop, lines 93-100
AssetCheck ==
    /\ cmd = "deploy-assets" /\ pc = "check"
    /\ obs' = [obs EXCEPT !.existed = Put(@, i, assets[i].Filename \in DOMAIN repo)]
    /\ IF ~LocalArtifactExists(repo, assets[i].Filename)
       THEN pc' = "fatal" /\ exitStatus' = 1
       ELSE pc' = "mktemp" /\ UNCHANGED exitStatus
    /\ UNCHANGED <<envVars, libVars, deployed, runVars, outdir, repo, tmp, i, artifactNames,
                   buildNeeded, successfulBuilds, totalBuildsNeeded, tempTarGzPath,
                   storeLog>>

\* os.CreateTemp, lines 103-108
AssetCreateTemp(ok) ==
    /\ cmd = "deploy-assets" /\ pc = "mktemp"
    /\ Inject(~ok)
    /\ IF ok
       THEN /\ tempTarGzPath' = FreshTemp(tmp)
            /\ tmp' = Put(tmp, tempTarGzPath', EmptyFile)
            /\ pc' = "retrieve"
            /\ UNCHANGED exitStatus
       ELSE /\ pc' = "fatal"
            /\ exitStatus' = 1
            /\ UNCHANGED <<tmp, tempTarGzPath>>
    /\ UNCHANGED <<config, tracked, libVars, deployed, runVars, outdir, repo, i, artifactNames,
                   buildNeeded, successfulBuilds, totalBuildsNeeded, obs, storeLog>>

\* RetrieveArtifact into the temporary file, lines 111-116
AssetRetrieve(io) ==
    /\ cmd = "deploy-assets" /\ pc = "retrieve"
    /\ Inject(io # "ok")
    /\ LET r == LocalRetrieveArtifact(repo, tmp, assets[i].Filename, tempTarGzPath, io)
       IN  IF r.err
           THEN /\ tmp' = osRemove(r.files, tempTarGzPath)
                /\ pc' = "fatal"
                /\ exitStatus' = 1
                /\ UNCHANGED obs
           ELSE /\ tmp' = r.files
                /\ pc' = "extract"
                /\ obs' = [obs EXCEPT !.retrieved = @ \cup {i}]
                /\ UNCHANGED exitStatus
    /\ UNCHANGED <<config, tracked, libVars, deployed, runVars, outdir, repo, i, artifactNames,
                   buildNeeded, successfulBuilds, totalBuildsNeeded, tempTarGzPath,
                   storeLog>>

\* os.MkdirAll of the deploy location, unzipFile, and the removal of the
\* temporary file, lines 119-137
AssetExtract(mkdirOk, umask, io) ==
    /\ cmd = "deploy-assets" /\ pc = "extract"
    /\ Inject(~mkdirOk \/ io # "ok")
    /\ LET loc == assets[i].DeployLocation
           made == Tree(deployed[loc].files)
           r == unzipFile(tmp, tempTarGzPath, made, umask, io)
       IN  /\ tmp' = osRemove(tmp, tempTarGzPath)
           /\ IF ~mkdirOk
              THEN pc' = "fatal" /\ exitStatus' = 1 /\ UNCHANGED <<deployed, i, obs>>
              ELSE /\ deployed' = [deployed EXCEPT ![loc] = r.dir]
                   /\ IF r.err
                      THEN pc' = "fatal" /\ exitStatus' = 1 /\ UNCHANGED <<i, obs>>
                      ELSE /\ obs' = [obs EXCEPT !.extracted = @ \cup {i}]
                           /\ i' = i + 1
                           /\ IF i = Len(assets)
                              THEN pc' = "done" /\ exitStatus' = 0
                              ELSE pc' = "check" /\ UNCHANGED exitStatus
    /\ UNCHANGED <<config, tracked, libVars, runVars, outdir, repo, artifactNames,
                   buildNeeded, successfulBuilds, totalBuildsNeeded, tempTarGzPath,
                   storeLog>>

\* ------------------------------------------------------------------ doCleanup.go
\* runDoCleanup, lines 92-117: configuration, filter and exclusion, selection;
\* no repository adapter is made
StartDoCleanup(f, e) ==
    /\ Idle
    /\ runs < MaxRuns
    /\ runs' = runs + 1
    /\ cmd' = "do-cleanup"
    /\ force' = FALSE
    /\ artifacts' = <<>>
    /\ assets' = filterAssetsByNameWithExclusion(config.Assets, f, e)
    /\ IF Len(assets') = 0
       THEN pc' = "done" /\ exitStatus' = 0
       ELSE pc' = "clean" /\ exitStatus' = -1
    /\ obs' = [NoObs EXCEPT !.logStart = Len(storeLog), !.noneFound = Len(assets') = 0]
    /\ i' = 1
    /\ artifactNames' = EmptyMap
    /\ buildNeeded' = EmptyMap
    /\ successfulBuilds' = 0
    /\ totalBuildsNeeded' = 0
    /\ tempTarGzPath' = 0
    /\ UNCHANGED <<envVars, libVars, deployed, outdir, repo, tmp, storeLog>>

CleanupOutcomes == {"ok", "stat", "open", "remove"}

\* what a directory can hold after os.RemoveAll has failed on one of its
\* entries: some of the entries, each with the directories above it
Leftovers(files) ==
    { rest \in SUBSET files :
        /\ rest # {}
        /\ \A e \in rest : Parent(e.path) = "." \/ Parent(e.path) \in Paths(rest) }

\* mutant: the directory goes with its contents
removeContents_removeDir(dir, io, rest) ==
    IF io = "open" THEN [err |-> TRUE, dir |-> dir]
    ELSE IF io = "remove" /\ dir.files # {} THEN [err |-> TRUE, dir |-> Tree(rest)]
    ELSE [err |-> FALSE, dir |-> NoDir]

\* removeContents(dir), lines 145-165: every name of the directory is removed
\* with its subtree, the directory stays; the first failure ends the walk
removeContents(dir, io, rest) ==
    IF io = "open" THEN [err |-> TRUE, dir |-> dir]
    ELSE IF io = "remove" /\ dir.files # {} THEN [err |-> TRUE, dir |-> Tree(rest)]
    ELSE [err |-> FALSE, dir |-> Tree({})]

\* one iteration of the loop of runDoCleanup, lines 120-141: os.Stat, then
\* removeContents; existed records whether the directory was there, cleaned
\* that its contents have been removed
CleanupAsset(io) ==
    /\ cmd = "do-cleanup" /\ pc = "clean"
    /\ LET loc == assets[i].DeployLocation
           advance == /\ i' = i + 1
                      /\ IF i = Len(assets)
                         THEN pc' = "done" /\ exitStatus' = 0
                         ELSE pc' = "clean" /\ UNCHANGED exitStatus
       IN  IF ~deployed[loc].exists
           THEN /\ io = "ok"
                /\ obs' = [obs EXCEPT !.existed = Put(@, i, FALSE)]
                /\ advance
                /\ UNCHANGED <<deployed, faults>>
           ELSE /\ Inject(io # "ok")
                /\ IF io = "stat"
                   THEN /\ pc' = "fatal" /\ exitStatus' = 1
                        /\ UNCHANGED <<deployed, i, obs>>
                   ELSE \E rest \in IF io = "remove" THEN Leftovers(deployed[loc].files)
                                    ELSE {{}} :
                          LET r == removeContents(deployed[loc], io, rest)
                          IN  /\ deployed' = [deployed EXCEPT ![loc] = r.dir]
                              /\ IF r.err
                                 THEN /\ pc' = "fatal" /\ exitStatus' = 1
                                      /\ UNCHANGED <<i, obs>>
                                 ELSE /\ obs' = [obs EXCEPT !.existed = Put(@, i, TRUE),
                                                           !.cleaned = @ \cup {i}]
                                      /\ advance
    /\ UNCHANGED <<config, tracked, libVars, runVars, outdir, repo, tmp, artifactNames,
                   buildNeeded, successfulBuilds, totalBuildsNeeded, tempTarGzPath,
                   storeLog>>

Next ==
    \/ \E d \in Committed, v \in 0..MaxVer : ChangeTracked(d, v)
    \/ \E f \in Filters : ArtifactNames(f)
    \/ \E f \in Filters : HashApplication(f)
    \/ \E f \in AssetFilters, e \in AssetExcludes : StartDoCleanup(f, e)
    \/ \E io \in CleanupOutcomes : CleanupAsset(io)
    \/ \E f \in Filters, useLocal \in BOOLEAN, awsOk \in BOOLEAN :
         StartShouldBuild(f, useLocal, awsOk)
    \/ ShouldBuildCheck
    \/ \E f \in Filters, frc \in BOOLEAN, useLocal \in BOOLEAN, awsOk \in BOOLEAN :
         StartDoBuilds(f, frc, useLocal, awsOk)
    \/ CheckArtifact
    \/ BuildLoop
    \/ \E code \in {0, 1} : BuildReturns(code)
    \/ \E ok \in BOOLEAN : BuildCreateTemp(ok)
    \/ \E io \in PackOutcomes : BuildPack(io)
    \/ \E io \in StoreOutcomes : BuildStore(io)
    \/ BuildCleanup
    \/ \E f \in Filters, useLocal \in BOOLEAN, awsOk \in BOOLEAN :
         StartDoDeploys(f, useLocal, awsOk)
    \/ DeployCheck
    \/ \E ok \in BOOLEAN : DeployCreateTemp(ok)
    \/ \E io \in RetrieveOutcomes : DeployRetrieve(io)
    \/ \E ok \in BOOLEAN, umask \in Umasks, io \in UnzipOutcomes : DeployExtract(ok, umask, io)
    \/ \E f \in AssetFilters, useLocal \in BOOLEAN, awsOk \in BOOLEAN :
         StartDeployAssets(f, useLocal, awsOk)
    \/ AssetCheck
    \/ \E ok \in BOOLEAN : AssetCreateTemp(ok)
    \/ \E io \in RetrieveOutcomes : AssetRetrieve(io)
    \/ \E ok \in BOOLEAN, umask \in Umasks, io \in UnzipOutcomes : AssetExtract(ok, umask, io)

Spec == Init /\ [][Next]_vars

\* ---------------------------------------------------- the adapters, called directly
Backends == {"local", "s3"}

\* the blob names, the source files and the destination used by direct calls
LibNames == { AssetName, [prefix |-> "web", hash |-> {<<"src/web", 1>>}, ext |-> ".tar.gz"] }

LibFiles == (1 :> AssetBlob) @@ (2 :> TarGz({Dir(".", Mode755), File("web", 1, Mode644)}))

LibSources == {1, 2, 4}

LibDest == 3

\* a destination in a directory that does not exist yet
LibDestInDir == 5

LibDests == {LibDest, LibDestInDir}

\* filepath.Dir of a destination: the temporary directory, which exists, or
\* a directory of its own
filepathDir(path) == IF path = LibDestInDir THEN Web.DeployLocation ELSE "tmp"

\* os.MkdirAll(dir, 0755) that succeeded, on the directories
MkdirAll(dirs, dir) ==
    IF dir \in DOMAIN dirs THEN [dirs EXCEPT ![dir] = Tree(@.files)] ELSE dirs

InitRepo ==
    /\ config = [Artifacts |-> <<Web, Api>>, Assets |-> <<Logo, Font>>, Repository |-> LocalRepo]
    /\ tracked = [d \in Dirs |-> Checkout(1)]
    /\ faults = 0
    /\ outdir = [o \in OutDirs |-> NoDir]
    /\ repo = EmptyMap
    /\ tmp = LibFiles
    /\ deployed = [l \in Locs |-> NoDir]
    /\ assets = <<>>
    /\ bucket = EmptyMap
    /\ passed = {}
    /\ last = NoCall
    /\ runs = 0
    /\ cmd = "none"
    /\ pc = "lib"
    /\ force = FALSE
    /\ artifacts = <<>>
    /\ i = 1
    /\ artifactNames = EmptyMap
    /\ buildNeeded = EmptyMap
    /\ successfulBuilds = 0
    /\ totalBuildsNeeded = 0
    /\ tempTarGzPath = 0
    /\ exitStatus = -1
    /\ obs = NoObs
    /\ storeLog = <<>>

cmdVars == <<config, tracked, faults, outdir, runs, cmd, pc, force, artifacts, i,
             artifactNames, buildNeeded, successfulBuilds, totalBuildsNeeded,
             tempTarGzPath, exitStatus, obs, storeLog, deployed, assets>>

\* what a library call on the destination's filesystem leaves alone
libFixed == <<config, tracked, faults, outdir, runs, cmd, pc, force, artifacts, i,
              artifactNames, buildNeeded, successfulBuilds, totalBuildsNeeded,
              tempTarGzPath, exitStatus, obs, storeLog, assets>>

\* whether the call before this one was a store of the same name that succeeded
AfterStore(backend, name) ==
    last.op = "store" /\ last.backend = backend /\ last.name = name /\ ~last.err

LocalStore(path, name, io) ==
    /\ pc = "lib"
    /\ LET r == LocalStoreArtifact(repo, tmp, path, name, io)
       IN  /\ repo' = r.repo
           /\ last' = [op |-> "store", backend |-> "local", name |-> name, err |-> r.err,
                       exists |-> FALSE, afterStore |-> FALSE]
    /\ passed' = passed \cup {<<"local", name>>}
    /\ UNCHANGED <<cmdVars, tmp, bucket>>

LocalExists(name) ==
    /\ pc = "lib"
    /\ last' = [op |-> "exists", backend |-> "local", name |-> name, err |-> FALSE,
                exists |-> LocalArtifactExists(repo, name),
                afterStore |-> AfterStore("local", name)]
    /\ UNCHANGED <<cmdVars, repo, tmp, bucket, passed>>

LocalRetrieve(name, dest, io) ==
    /\ pc = "lib"
    /\ LET r == LocalRetrieveArtifact(repo, tmp, name, dest, io)
       IN  /\ tmp' = r.files
           /\ deployed' = IF r.mkdir THEN MkdirAll(deployed, filepathDir(dest)) ELSE deployed
           /\ last' = [op |-> "retrieve", backend |-> "local", name |-> name, err |-> r.err,
                       exists |-> FALSE, afterStore |-> AfterStore("local", name)]
    /\ UNCHANGED <<libFixed, repo, bucket, passed>>

S3Store(path, name, io) ==
    /\ pc = "lib"
    /\ LET r == S3StoreArtifact(bucket, tmp, path, name, io)
       IN  /\ bucket' = r.bucket
           /\ last' = [op |-> "store", backend |-> "s3", name |-> name, err |-> r.err,
                       exists |-> FALSE, afterStore |-> FALSE]
    /\ passed' = passed \cup {<<"s3", name>>}
    /\ UNCHANGED <<cmdVars, tmp, repo>>

S3Exists(name, io) ==
    /\ pc = "lib"
    /\ LET r == S3ArtifactExists(bucket, name, io)
       IN  last' = [op |-> "exists", backend |-> "s3", name |-> name, err |-> r.err,
                    exists |-> r.exists, afterStore |-> AfterStore("s3", name)]
    /\ UNCHANGED <<cmdVars, repo, tmp, bucket, passed>>

S3Retrieve(name, dest, io) ==
    /\ pc = "lib"
    /\ LET r == S3RetrieveArtifact(bucket, tmp, name, dest, io)
       IN  /\ tmp' = r.files
           /\ deployed' = IF r.mkdir THEN MkdirAll(deployed, filepathDir(dest)) ELSE deployed
           /\ last' = [op |-> "retrieve", backend |-> "s3", name |-> name, err |-> r.err,
                       exists |-> FALSE, afterStore |-> AfterStore("s3", name)]
    /\ UNCHANGED <<libFixed, repo, bucket, passed>>

NextRepo ==
    \/ \E path \in LibSources, name \in LibNames, io \in StoreOutcomes :
         LocalStore(path, name, io)
    \/ \E name \in LibNames : LocalExists(name)
    \/ \E name \in LibNames, io \in RetrieveOutcomes : LocalRetrieve(name, LibDest, io)
    \/ \E path \in LibSources, name \in LibNames, io \in S3StoreOutcomes :
         S3Store(path, name, io)
    \/ \E name \in LibNames, io \in S3ExistsOutcomes : S3Exists(name, io)
    \/ \E name \in LibNames, io \in RetrieveOutcomes : S3Retrieve(name, LibDest, io)

SpecRepo == InitRepo /\ [][NextRepo]_vars

\* --------------------------------------- retrieve, into an existing or a new directory
\* the bucket holds the asset; the local repository is filled by the stores
InitRetrieve ==
    /\ config = [Artifacts |-> <<Web, Api>>, Assets |-> <<Logo, Font>>, Repository |-> LocalRepo]
    /\ tracked = [d \in Dirs |-> Checkout(1)]
    /\ faults = 0
    /\ outdir = [o \in OutDirs |-> NoDir]
    /\ repo = EmptyMap
    /\ tmp = LibFiles
    /\ deployed = [l \in Locs |-> NoDir]
    /\ assets = <<>>
    /\ bucket = S3StoreArtifact(EmptyMap, LibFiles, 1, AssetName, "ok").bucket
    /\ passed = {}
    /\ last = NoCall
    /\ runs = 0
    /\ cmd = "none"
    /\ pc = "lib"
    /\ force = FALSE
    /\ artifacts = <<>>
    /\ i = 1
    /\ artifactNames = EmptyMap
    /\ buildNeeded = EmptyMap
    /\ successfulBuilds = 0
    /\ totalBuildsNeeded = 0
    /\ tempTarGzPath = 0
    /\ exitStatus = -1
    /\ obs = NoObs
    /\ storeLog = <<>>

NextRetrieve ==
    \/ \E path \in LibSources, name \in LibNames, io \in StoreOutcomes :
         LocalStore(path, name, io)
    \/ \E name \in LibNames, dest \in LibDests, io \in RetrieveOutcomes :
         LocalRetrieve(name, dest, io)
    \/ \E name \in LibNames, dest \in LibDests, io \in RetrieveOutcomes :
         S3Retrieve(name, dest, io)

SpecRetrieve == InitRetrieve /\ [][NextRetrieve]_vars

\* ------------------------------------- do-deploys over a repository of packed trees
\* the directories that artifacts are packed from
SourceTrees ==
    { Tree({}),
      Tree({File("a.txt", 1, Mode644)}),
      Tree({Dir("sub", Mode755)}),
      Tree({File("a.txt", 2, Mode664), Dir("sub", Mode755), File("sub/b.txt", 1, Mode755)}) }

\* what a deploy location holds before a deploy
DestTrees ==
    { NoDir,
      Tree({}),
      Tree({File("old.txt", 1, Mode644)}),
      Tree({File("a.txt", 9, Mode644)}),
      Tree({File("a.txt", 9, Mode444)}),
      Tree({File("sub", 1, Mode644)}),
      Tree({Dir("sub", Mode755), File("sub/b.txt", 9, Mode644), File("old.txt", 1, Mode644)}) }

\* the artifact of each unit has been packed from its output directory and
\* stored under its identifier
InitDeploy ==
    /\ config = [Artifacts |-> <<Web, Api>>, Assets |-> <<Logo, Font>>, Repository |-> LocalRepo]
    /\ tracked = [d \in Dirs |-> Checkout(1)]
    /\ faults = 0
    /\ \E src \in SourceTrees :
         outdir = [o \in OutDirs |->
                    IF o = Web.OutputDirectory THEN src
                    ELSE IF o = Api.OutputDirectory THEN BuildOutput(Api, 0) ELSE NoDir]
    /\ repo = [n \in { GetArtifactName(u.Name, config, tracked).name : u \in {Web, Api} } |->
                 IF n = GetArtifactName(Web.Name, config, tracked).name
                 THEN zipDirectory(outdir[Web.OutputDirectory], "ok").blob
                 ELSE zipDirectory(outdir[Api.OutputDirectory], "ok").blob]
    /\ tmp = EmptyMap
    /\ \E dst \in DestTrees :
         deployed = [l \in Locs |-> IF l = Web.DeployLocation THEN dst ELSE NoDir]
    /\ assets = <<>>
    /\ bucket = EmptyMap
    /\ passed = {}
    /\ last = NoCall
    /\ runs = 0
    /\ cmd = "none"
    /\ pc = "idle"
    /\ force = FALSE
    /\ artifacts = <<>>
    /\ i = 1
    /\ artifactNames = EmptyMap
    /\ buildNeeded = EmptyMap
    /\ successfulBuilds = 0
    /\ totalBuildsNeeded = 0
    /\ tempTarGzPath = 0
    /\ exitStatus = -1
    /\ obs = NoObs
    /\ storeLog = <<>>

NextDeploy ==
    \/ \E f \in Filters, useLocal \in BOOLEAN, awsOk \in BOOLEAN :
         StartDoDeploys(f, useLocal, awsOk)
    \/ DeployCheck
    \/ \E ok \in BOOLEAN : DeployCreateTemp(ok)
    \/ \E io \in RetrieveOutcomes : DeployRetrieve(io)
    \/ \E ok \in BOOLEAN, umask \in Umasks, io \in UnzipOutcomes : DeployExtract(ok, umask, io)

SpecDeploy == InitDeploy /\ [][NextDeploy]_vars

\* ------------------------------------------------ zipDirectory, then unzipFile
\* the path the archive is written to and read from
ArchivePath == 1

InitCodec ==
    /\ config = [Artifacts |-> <<Web, Api>>, Assets |-> <<Logo, Font>>, Repository |-> LocalRepo]
    /\ tracked = [d \in Dirs |-> Checkout(1)]
    /\ faults = 0
    /\ \E src \in SourceTrees :
         outdir = [o \in OutDirs |-> IF o = Web.OutputDirectory THEN src ELSE NoDir]
    /\ repo = EmptyMap
    /\ tmp = EmptyMap
    /\ \E dst \in DestTrees :
         deployed = [l \in Locs |-> IF l = Web.DeployLocation THEN dst ELSE NoDir]
    /\ assets = <<>>
    /\ bucket = EmptyMap
    /\ passed = {}
    /\ last = NoCall
    /\ runs = 0
    /\ cmd = "none"
    /\ pc = "idle"
    /\ force = FALSE
    /\ artifacts = <<>>
    /\ i = 1
    /\ artifactNames = EmptyMap
    /\ buildNeeded = EmptyMap
    /\ successfulBuilds = 0
    /\ totalBuildsNeeded = 0
    /\ tempTarGzPath = 0
    /\ exitStatus = -1
    /\ obs = NoObs
    /\ storeLog = <<>>

\* zipDirectory(sourceDir, tarGzPath): os.Create of the archive, then the walk
Pack(io) ==
    /\ pc = "idle"
    /\ LET r == zipDirectory(outdir[Web.OutputDirectory], io)
       IN  /\ tmp' = Put(tmp, ArchivePath, r.blob)
           /\ pc' = IF r.err THEN "fatal" ELSE "packed"
    /\ cmd' = "pack"
    /\ UNCHANGED <<envVars, libVars, outdir, repo, deployed, runs, force, artifacts, assets, i, artifactNames,
                   buildNeeded, successfulBuilds, totalBuildsNeeded, tempTarGzPath,
                   exitStatus, obs, storeLog>>

\* unzipFile(tarGzPath, destDir) of the archive that was packed
Unpack(umask, io) ==
    /\ pc = "packed"
    /\ LET r == unzipFile(tmp, ArchivePath, deployed[Web.DeployLocation], umask, io)
       IN  /\ deployed' = [deployed EXCEPT ![Web.DeployLocation] = r.dir]
           /\ pc' = IF r.err THEN "fatal" ELSE "done"
    /\ cmd' = "unpack"
    /\ UNCHANGED <<envVars, libVars, outdir, repo, tmp, runs, force, artifacts, assets, i, artifactNames,
                   buildNeeded, successfulBuilds, totalBuildsNeeded, tempTarGzPath,
                   exitStatus, obs, storeLog>>

NextCodec ==
    \/ \E io \in UnzipOutcomes : Pack(io)
    \/ \E umask \in Umasks, io \in UnzipOutcomes : Unpack(umask, io)

SpecCodec == InitCodec /\ [][NextCodec]_vars

\* ------------------------------------------------- GetArtifactName as a function
\* the names GetArtifactName is asked for; "ghost" is in no configuration
HashNames == {"web", "api", "admin", "ghost"}

\* the content of the index under each directory
Index(tr) == [d \in DOMAIN tr |-> tr[d].index]

\* last: the last call of GetArtifactName, the index it ran on, whether a
\* file was touched or an untracked file came or went since (moved), and
\* whether the call repeated the one before it on the same index after such
\* a change (again)
NoHash == [op |-> "none", name |-> "", err |-> FALSE, id |-> NoName,
           at |-> [d \in Dirs |-> 1], moved |-> FALSE, again |-> FALSE]

InitHash ==
    /\ config \in LocalConfigs
    /\ tracked = [d \in Dirs |-> Checkout(1)]
    /\ faults = 0
    /\ outdir = [o \in OutDirs |-> NoDir]
    /\ repo = EmptyMap
    /\ tmp = EmptyMap
    /\ deployed = [l \in Locs |-> NoDir]
    /\ assets = <<>>
    /\ bucket = EmptyMap
    /\ passed = {}
    /\ last = NoHash
    /\ runs = 0
    /\ cmd = "none"
    /\ pc = "lib"
    /\ force = FALSE
    /\ artifacts = <<>>
    /\ i = 1
    /\ artifactNames = EmptyMap
    /\ buildNeeded = EmptyMap
    /\ successfulBuilds = 0
    /\ totalBuildsNeeded = 0
    /\ tempTarGzPath = 0
    /\ exitStatus = -1
    /\ obs = NoObs
    /\ storeLog = <<>>

hashFixed == <<config, faults, outdir, repo, tmp, deployed, assets, bucket, passed, runs,
               cmd, pc, force, artifacts, i, artifactNames, buildNeeded, successfulBuilds,
               totalBuildsNeeded, tempTarGzPath, exitStatus, obs, storeLog>>

\* git add / git rm: the index under d changes, or d goes or comes back
Stage(d, v) ==
    /\ v # tracked[d].index
    /\ tracked' = [tracked EXCEPT ![d].index = v]
    /\ UNCHANGED <<hashFixed, last>>

\* a file under d is rewritten with the content it had
Touch(d) ==
    /\ tracked[d].mtime < MaxMtime
    /\ tracked' = [tracked EXCEPT ![d].mtime = @ + 1]
    /\ last' = [last EXCEPT !.moved = TRUE]
    /\ UNCHANGED hashFixed

\* a file git does not track is created under d, or removed
Untracked(d) ==
    /\ tracked' = [tracked EXCEPT ![d].untracked = ~@]
    /\ last' = [last EXCEPT !.moved = TRUE]
    /\ UNCHANGED hashFixed

\* slarty.GetArtifactName(artifactname, config)
HashName(artifactname) ==
    /\ LET r == GetArtifactName(artifactname, config, tracked)
       IN  last' = [op |-> "name", name |-> artifactname, err |-> r.err, id |-> r.name,
                    at |-> Index(tracked), moved |-> FALSE,
                    again |-> /\ last.op = "name" /\ last.name = artifactname
                              /\ last.at = Index(tracked) /\ last.moved]
    /\ UNCHANGED <<hashFixed, tracked>>

NextHash ==
    \/ \E d \in Dirs, v \in 0..MaxVer : Stage(d, v)
    \/ \E d \in Dirs : Touch(d)
    \/ \E d \in Dirs : Untracked(d)
    \/ \E n \in HashNames : HashName(n)

SpecHash == InitHash /\ [][NextHash]_vars

\* ------------------------------------------- NewRepositoryAdapter as a function
NoNew == [op |-> "none", useLocal |-> FALSE, awsOk |-> FALSE, err |-> FALSE,
          adapter |-> NoAdapter]

InitAdapter ==
    /\ \E r \in Repositories :
         config = [Artifacts |-> <<Web, Api>>, Assets |-> <<Logo, Font>>, Repository |-> r]
    /\ tracked = [d \in Dirs |-> Checkout(1)]
    /\ faults = 0
    /\ outdir = [o \in OutDirs |-> NoDir]
    /\ repo = EmptyMap
    /\ tmp = EmptyMap
    /\ deployed = [l \in Locs |-> NoDir]
    /\ assets = <<>>
    /\ bucket = EmptyMap
    /\ passed = {}
    /\ last = NoNew
    /\ runs = 0
    /\ cmd = "none"
    /\ pc = "lib"
    /\ force = FALSE
    /\ artifacts = <<>>
    /\ i = 1
    /\ artifactNames = EmptyMap
    /\ buildNeeded = EmptyMap
    /\ successfulBuilds = 0
    /\ totalBuildsNeeded = 0
    /\ tempTarGzPath = 0
    /\ exitStatus = -1
    /\ obs = NoObs
    /\ storeLog = <<>>

\* slarty.NewRepositoryAdapter(artifactConfig, local)
NewAdapter(useLocal, awsOk) ==
    /\ LET a == NewRepositoryAdapter(config.Repository, useLocal, awsOk)
       IN  last' = [op |-> "new", useLocal |-> useLocal, awsOk |-> awsOk, err |-> a.err,
                    adapter |-> a.adapter]
    /\ UNCHANGED <<hashFixed, tracked>>

NextAdapter == \E useLocal \in BOOLEAN, awsOk \in BOOLEAN : NewAdapter(useLocal, awsOk)

SpecAdapter == InitAdapter /\ [][NextAdapter]_vars

\* ------------------------------- do-builds with build commands that do things
\* exec.Command("sh", "-c", artifact.Command) is any program: while it runs it
\* may commit or remove tracked content; such interference counts against
\* the budget of the environment's failures
BuildCommits(d, v) ==
    /\ cmd = "do-builds" /\ pc = "running"
    /\ v # tracked[d].index
    /\ Inject(TRUE)
    /\ tracked' = [tracked EXCEPT ![d].index = v]
    /\ UNCHANGED <<config, outdir, repo, tmp, runs, cmd, pc, force, artifacts, i,
                   artifactNames, buildNeeded, successfulBuilds, totalBuildsNeeded,
                   tempTarGzPath, exitStatus, obs, storeLog, deployed, assets, libVars>>

\* ... and it may publish or delete the repository entry of a selected unit
BuildWritesRepo(k, publish) ==
    /\ cmd = "do-builds" /\ pc = "running"
    /\ k \in 1..Len(artifacts)
    /\ Inject(TRUE)
    /\ LET name == artifactNames[artifacts[k].Name]
       IN  /\ publish = (name \notin DOMAIN repo)
           /\ repo' = IF publish
                      THEN Put(repo, name, zipDirectory(BuildOutput(artifacts[k], 0), "ok").blob)
                      ELSE osRemove(repo, name)
    /\ UNCHANGED <<config, tracked, outdir, tmp, runs, cmd, pc, force, artifacts, i,
                   artifactNames, buildNeeded, successfulBuilds, totalBuildsNeeded,
                   tempTarGzPath, exitStatus, obs, storeLog, deployed, assets, libVars>>

\* any directory of the units may be missing when the first invocation starts
InitBuilds ==
    /\ config \in Configs
    /\ tracked \in [Dirs -> {Checkout(0), Checkout(1)}]
    /\ faults = 0
    /\ outdir = [o \in OutDirs |-> NoDir]
    /\ repo = Put(EmptyMap, AssetName, AssetBlob)
    /\ tmp = EmptyMap
    /\ deployed = [l \in Locs |-> NoDir]
    /\ assets = <<>>
    /\ bucket = EmptyMap
    /\ passed = {}
    /\ last = NoCall
    /\ runs = 0
    /\ cmd = "none"
    /\ pc = "idle"
    /\ force = FALSE
    /\ artifacts = <<>>
    /\ i = 1
    /\ artifactNames = EmptyMap
    /\ buildNeeded = EmptyMap
    /\ successfulBuilds = 0
    /\ totalBuildsNeeded = 0
    /\ tempTarGzPath = 0
    /\ exitStatus = -1
    /\ obs = NoObs
    /\ storeLog = <<>>

\* the next statement of a running do-builds; cmd.Run() returning is one
DoBuildsStep ==
    \/ CheckArtifact
    \/ BuildLoop
    \/ \E code \in {0, 1} : BuildReturns(code)
    \/ \E ok \in BOOLEAN : BuildCreateTemp(ok)
    \/ \E io \in PackOutcomes : BuildPack(io)
    \/ \E io \in StoreOutcomes : BuildStore(io)
    \/ BuildCleanup

NextBuilds ==
    \/ \E f \in Filters, frc \in BOOLEAN, useLocal \in BOOLEAN, awsOk \in BOOLEAN :
         StartDoBuilds(f, frc, useLocal, awsOk)
    \/ DoBuildsStep
    \/ \E d \in Committed, v \in 0..MaxVer : BuildCommits(d, v)
    \/ \E k \in 1..2, publish \in BOOLEAN : BuildWritesRepo(k, publish)

\* the process runs on, and every build command returns
SpecBuilds == InitBuilds /\ [][NextBuilds]_vars /\ WF_vars(DoBuildsStep)

\* ------------------------- deploy-assets and do-cleanup over uploaded assets
\* the blob of the second asset, when it has been uploaded
FontBlob == TarGz({Dir(".", Mode755), File("a.txt", 1, Mode644)})

\* the assets are configured in either order; each has been uploaded under
\* its file name or not; each one's deploy location is missing, empty, or
\* holds what earlier deploys have left there
InitAssets ==
    /\ \E a \in {<<Logo, Font>>, <<Font, Logo>>} :
         config = [Artifacts |-> <<Web, Api>>, Assets |-> a, Repository |-> LocalRepo]
    /\ tracked = [d \in Dirs |-> Checkout(1)]
    /\ faults = 0
    /\ outdir = [o \in OutDirs |-> NoDir]
    /\ \E uploaded \in SUBSET {Logo.Filename, Font.Filename} :
         repo = [n \in uploaded |-> IF n = Logo.Filename THEN AssetBlob ELSE FontBlob]
    /\ tmp = EmptyMap
    /\ \E logo \in DestTrees, font \in DestTrees :
         deployed = [l \in Locs |-> IF l = Logo.DeployLocation THEN logo
                                    ELSE IF l = Font.DeployLocation THEN font ELSE NoDir]
    /\ assets = <<>>
    /\ bucket = EmptyMap
    /\ passed = {}
    /\ last = NoCall
    /\ runs = 0
    /\ cmd = "none"
    /\ pc = "idle"
    /\ force = FALSE
    /\ artifacts = <<>>
    /\ i = 1
    /\ artifactNames = EmptyMap
    /\ buildNeeded = EmptyMap
    /\ successfulBuilds = 0
    /\ totalBuildsNeeded = 0
    /\ tempTarGzPath = 0
    /\ exitStatus = -1
    /\ obs = NoObs
    /\ storeLog = <<>>

NextAssets ==
    \/ \E f \in AssetFilters, e \in AssetExcludes : StartDoCleanup(f, e)
    \/ \E io \in CleanupOutcomes : CleanupAsset(io)
    \/ \E f \in AssetFilters, useLocal \in BOOLEAN, awsOk \in BOOLEAN :
         StartDeployAssets(f, useLocal, awsOk)
    \/ AssetCheck
    \/ \E ok \in BOOLEAN : AssetCreateTemp(ok)
    \/ \E io \in RetrieveOutcomes : AssetRetrieve(io)
    \/ \E ok \in BOOLEAN, umask \in Umasks, io \in UnzipOutcomes : AssetExtract(ok, umask, io)

SpecAssets == InitAssets /\ [][NextAssets]_vars

\* ---------------------------------------------- the selection functions alone
\* configurations whose unit names differ in case and in surrounding blanks
FilterConfigs ==
    LocalConfigs \cup
    { [Artifacts |-> <<Web, [Api EXCEPT !.Name = "API"], Admin>>,
       Assets |-> <<Logo, Font>>, Repository |-> LocalRepo],
      [Artifacts |-> <<[Api EXCEPT !.Name = " api "], Web>>,
       Assets |-> <<Font, Logo>>, Repository |-> LocalRepo] }

UnitWords == {"web", "WEB", " Api ", "API", "we", "nothing"}

AssetWords == {"LOGO", "logo", " Font ", "lo", "nothing"}

\* the lists strings.Split gives, up to MaxFilter entries; none when the flag is unset
FilterLists(words) == UNION { [1..n -> words] : n \in 0..MaxFilter }

\* the arguments of a call that has not been made yet
Args(op, filter, exclude) ==
    [op |-> op, filter |-> filter, exclude |-> exclude, result |-> <<>>]

InitFilter ==
    /\ config \in FilterConfigs
    /\ tracked = [d \in Dirs |-> Checkout(1)]
    /\ faults = 0
    /\ outdir = [o \in OutDirs |-> NoDir]
    /\ repo = EmptyMap
    /\ tmp = EmptyMap
    /\ deployed = [l \in Locs |-> NoDir]
    /\ assets = <<>>
    /\ bucket = EmptyMap
    /\ passed = {}
    /\ \/ \E filter \in FilterLists(UnitWords) : last = Args("units", filter, <<>>)
       \/ \E filter \in FilterLists(AssetWords), exclude \in FilterLists(AssetWords) :
             last = Args("assets", filter, exclude)
    /\ runs = 0
    /\ cmd = "none"
    /\ pc = "lib"
    /\ force = FALSE
    /\ artifacts = <<>>
    /\ i = 1
    /\ artifactNames = EmptyMap
    /\ buildNeeded = EmptyMap
    /\ successfulBuilds = 0
    /\ totalBuildsNeeded = 0
    /\ tempTarGzPath = 0
    /\ exitStatus = -1
    /\ obs = NoObs
    /\ storeLog = <<>>

\* artifactConfig.GetByArtifactsByNameWithFilter(filters)
Select ==
    /\ last.op = "units"
    /\ last' = [last EXCEPT !.op = "selected",
                            !.result = GetByArtifactsByNameWithFilter(config, last.filter)]
    /\ UNCHANGED <<hashFixed, tracked>>

\* filterAssetsByNameWithExclusion(artifactConfig.Assets, filters, excludes)
SelectAssets ==
    /\ last.op = "assets"
    /\ last' = [last EXCEPT !.op = "filtered",
                            !.result = filterAssetsByNameWithExclusion(
                                           config.Assets, last.filter, last.exclude)]
    /\ UNCHANGED <<hashFixed, tracked>>

NextFilter == Select \/ SelectAssets

SpecFilter == InitFilter /\ [][NextFilter]_vars

\* ============================================================== the claims
Sel == 1..Len(artifacts)

\* the identifier of the k-th selected unit, computed afresh
IdOf(k) == GetArtifactName(artifacts[k].Name, config, tracked).name

\* the selected units for which a step after the existence check failed
FailedUnits == obs.failed \cup obs.tempFailed \cup obs.packFailed
               \cup (obs.storeCalled \ obs.stored)

\* C1: in a non-forced do-builds run a unit is reported NO exactly when its
\* identifier was in the repository at the existence check; the build command,
\* the pack and the store happen only for units whose identifier was absent,
\* and when the run ends every unit whose identifier was absent has had its
\* build command executed.
C1_BuildIffAbsent ==
    (cmd = "do-builds" /\ ~force) =>
        /\ \A k \in DOMAIN obs.existed :
             obs.reported[k] = IF obs.existed[k] THEN "NO" ELSE "YES"
        /\ \A k \in obs.running \cup obs.ran \cup obs.tempFailed \cup obs.packFailed
                    \cup obs.packed \cup obs.storeCalled : ~obs.existed[k]
        /\ pc = "done" => \A k \in Sel : ~obs.existed[k] => k \in obs.ran

C1_Witness ==
    /\ cmd = "do-builds" /\ ~force /\ pc = "done"
    /\ \E j, k \in Sel : /\ obs.existed[j] /\ j \notin obs.ran /\ obs.reported[j] = "NO"
                         /\ ~obs.existed[k] /\ k \in obs.ran /\ obs.reported[k] = "YES"

\* C2: for both backends, on an initially empty repository, ArtifactExists
\* reports false for a name never passed to StoreArtifact, and reports true
\* when it is called right after a StoreArtifact of that name that returned nil
\* (for S3: when the HeadObject request itself does not fail).
C2_ExistsAfterStore ==
    last.op = "exists" =>
        /\ <<last.backend, last.name>> \notin passed => ~last.exists
        /\ (last.afterStore /\ ~last.err) => last.exists

C2_Witness ==
    /\ last.op = "exists" /\ last.backend = "s3" /\ last.afterStore /\ last.exists
    /\ \E n \in LibNames : <<"local", n>> \in passed /\ LocalArtifactExists(repo, n)

\* C3: when a do-builds run ends, every selected unit whose identifier was
\* absent has had its build command executed; if no step failed for it, its
\* store was called; and if the store succeeded, the blob stored was the pack
\* of the unit's output directory, under the unit's identifier, which exists
\* in the repository after the run.
C3_BuiltPackedStored ==
    (cmd = "do-builds" /\ pc = "done") =>
        \A k \in Sel : ~obs.existed[k] =>
            /\ k \in obs.ran
            /\ k \notin (obs.failed \cup obs.tempFailed \cup obs.packFailed) =>
                 k \in obs.packed /\ k \in obs.storeCalled
            /\ k \in obs.stored =>
                 /\ obs.storedAs[k].name = IdOf(k)
                 /\ obs.storedAs[k].blob = zipDirectory(outdir[artifacts[k].OutputDirectory], "ok").blob
                 /\ LocalArtifactExists(repo, IdOf(k))

C3_Witness ==
    /\ cmd = "do-builds" /\ pc = "done" /\ ~force
    /\ \E k \in Sel : /\ ~obs.existed[k] /\ k \in obs.stored
                      /\ repo[IdOf(k)] = zipDirectory(outdir[artifacts[k].OutputDirectory], "ok").blob

\* C4: when a forced do-builds run ends, the build command of every selected
\* unit has been executed, whether its identifier existed or not, and every
\* unit whose build, temporary file and pack succeeded has had its store called.
C4_ForceBuildsAll ==
    (cmd = "do-builds" /\ pc = "done" /\ force) =>
        \A k \in Sel :
            /\ obs.reported[k] = "YES"
            /\ k \in obs.ran
            /\ k \notin (obs.failed \cup obs.tempFailed \cup obs.packFailed) =>
                 k \in obs.packed /\ k \in obs.storeCalled

C4_Witness ==
    /\ cmd = "do-builds" /\ pc = "done" /\ force
    /\ \E k \in Sel : obs.existed[k] /\ k \in obs.ran /\ k \in obs.stored

NonForced(p) == ~storeLog[p].forced

\* C5 as stated: no identifier is stored by two build executions of non-forced
\* runs.
C5_OneBuildPerIdentifier ==
    \A p, q \in 1..Len(storeLog) :
        (p < q /\ NonForced(p) /\ NonForced(q)) => storeLog[p].name # storeLog[q].name

\* C5, the part that holds: two build executions of non-forced runs that end
\* with the same identifier stored belong to one invocation and to two
\* different units resolving to that identifier; and a non-forced run executes
\* no build command for a unit whose identifier an earlier run has stored
\* (idempotence).
C5_OneBuildPerUnitAndIdentifier ==
    /\ \A p, q \in 1..Len(storeLog) :
         (p < q /\ NonForced(p) /\ NonForced(q) /\ storeLog[p].name = storeLog[q].name) =>
             storeLog[p].run = storeLog[q].run /\ storeLog[p].unit # storeLog[q].unit
    /\ (cmd = "do-builds" /\ ~force) =>
         \A k \in obs.running \cup obs.ran :
             \A p \in 1..obs.logStart : storeLog[p].name # IdOf(k)

C5_Witness ==
    /\ cmd = "do-builds" /\ ~force /\ pc = "done"
    /\ Len(artifacts) > 0 /\ obs.ran = {}
    /\ \E p \in 1..obs.logStart : NonForced(p) /\ storeLog[p].name = IdOf(1)

\* C6 as stated: no step changes or removes an entry of the repository.
C6_EntriesImmutable ==
    [][\A n \in DOMAIN repo : n \in DOMAIN repo' /\ repo'[n] = repo[n]]_vars

\* C6 as amended: entries are never removed, and the only step that changes
\* the content under an existing name is the store of do-builds under that
\* name, in a forced run or for a name that was absent at the existence check
\* of the run.
C6_OnlyStoreOverwrites ==
    [][\A n \in DOMAIN repo :
          /\ n \in DOMAIN repo'
          /\ repo'[n] # repo[n] =>
               /\ cmd = "do-builds" /\ pc = "store"
               /\ n = IdOf(i)
               /\ force \/ ~obs.existed[i]]_vars

C6_Witness ==
    /\ cmd = "do-builds" /\ pc = "cleanup" /\ force
    /\ obs.existed[i] /\ i \in obs.stored
    /\ \E p \in 1..(Len(storeLog) - 1) : storeLog[p].name = IdOf(i)

\* C7: a unit whose build command exits non-zero gets no temporary file, no
\* pack and no store, the run is not aborted, and when the run ends the build
\* command of every unit that needed a build has been executed.
C7_BuildFailureNotFatal ==
    cmd = "do-builds" =>
        /\ \A k \in obs.failed :
             k \notin (obs.tempFailed \cup obs.packFailed \cup obs.packed \cup obs.storeCalled)
        /\ obs.failed # {} => pc # "fatal"
        /\ pc = "done" => \A k \in Sel : buildNeeded[artifacts[k].Name] => k \in obs.ran

C7_Witness ==
    /\ cmd = "do-builds" /\ pc = "done"
    /\ \E j, k \in Sel : j < k /\ j \in obs.failed /\ k \in obs.ran /\ k \in obs.stored

\* C8: a do-builds run ends with status zero exactly when no unit failed.
C8_NonZeroExitOnFailure ==
    (cmd = "do-builds" /\ pc = "done") => (exitStatus = 0 <=> FailedUnits = {})

\* C9: no temporary archive exists outside the steps that use it: when an
\* invocation of do-builds, do-deploys or deploy-assets has ended, normally or
\* fatally, and between two units, every temporary file has been removed.
C9_NoTempLeft ==
    pc \notin {"pack", "store", "cleanup", "retrieve", "extract"} => DOMAIN tmp = {}

C9_Witness ==
    /\ cmd = "do-builds" /\ pc = "done"
    /\ obs.storeCalled \ obs.stored # {}
    /\ DOMAIN tmp = {}

\* C10: in do-builds at most one build command runs at a time; the commands
\* start in selection order; and while a command runs, every unit started
\* before has returned, no temporary file exists, and each stored unit has
\* been cleaned up.
C10_SequentialBuilds ==
    cmd = "do-builds" =>
        /\ Cardinality(obs.running) <= 1
        /\ \A p, q \in 1..Len(obs.started) : p < q => obs.started[p] < obs.started[q]
        /\ obs.running # {} =>
             /\ pc = "running"
             /\ obs.running = {i}
             /\ DOMAIN tmp = {}
             /\ \A p \in 1..(Len(obs.started) - 1) :
                  /\ obs.started[p] \in obs.ran
                  /\ obs.started[p] \in obs.stored => obs.started[p] \in obs.cleaned

C10_Witness ==
    /\ cmd = "do-builds" /\ pc = "running"
    /\ Len(obs.started) = 2
    /\ obs.started[1] \in obs.cleaned

\* the regular files of a tree, as (relative path, content)
RegFiles(tree) == { <<e.path, e.content>> : e \in { x \in tree.files : x.type = "reg" } }

\* the step is the successful unpack of a unit by do-deploys
Unpacked == cmd = "do-deploys" /\ pc = "extract" /\ i \in obs'.extracted

\* C13 as stated: when do-deploys has unpacked a unit, the regular files of its
\* deploy location are exactly the regular files (paths and contents) of the
\* directory its artifact was packed from.
C13_DeployedExactly ==
    cmd = "do-deploys" =>
        \A k \in obs.extracted :
            RegFiles(deployed[artifacts[k].DeployLocation])
                = RegFiles(outdir[artifacts[k].OutputDirectory])

\* C13 as amended: the step that unpacks a unit leaves every regular file of
\* the packed directory in the deploy location with its content, leaves every
\* entry the deploy location held at a path the packed directory does not
\* name as it was, adds nothing else, and touches no other deploy location;
\* the file set is exactly that of the packed directory when the deploy
\* location was missing or empty before.
C13_DeployedOver ==
    [][Unpacked =>
        LET loc == artifacts[i].DeployLocation
            src == outdir[artifacts[i].OutputDirectory]
        IN  /\ RegFiles(src) \subseteq RegFiles(deployed'[loc])
            /\ \A o \in deployed[loc].files :
                 o.path \notin Paths(src.files) => o \in deployed'[loc].files
            /\ \A e \in deployed'[loc].files :
                 e.path \notin Paths(src.files) => e \in deployed[loc].files
            /\ deployed[loc].files = {} => RegFiles(deployed'[loc]) = RegFiles(src)
            /\ \A l \in Locs \ {loc} : deployed'[l] = deployed[l]]_vars

C13_Witness ==
    /\ cmd = "do-deploys" /\ pc = "done" /\ 1 \in obs.extracted
    /\ <<"old.txt", 1>> \in RegFiles(deployed[artifacts[1].DeployLocation])
    /\ <<"a.txt", 2>> \in RegFiles(deployed[artifacts[1].DeployLocation])
    /\ <<"sub/b.txt", 1>> \in RegFiles(deployed[artifacts[1].DeployLocation])

\* C14 as stated: after pack and unpack, every regular file of the source tree
\* is in the destination at the same relative path with the same content and
\* the same permission bits, and every subdirectory of the source exists in
\* the destination.
C14_RoundTrip ==
    (cmd = "unpack" /\ pc = "done") =>
        \A e \in outdir[Web.OutputDirectory].files :
            \E d \in deployed[Web.DeployLocation].files :
                /\ d.path = e.path /\ d.type = e.type
                /\ e.type = "reg" => d.content = e.content /\ d.mode = e.mode

\* C14, the part that holds: paths, contents and subdirectories are
\* reproduced; the permission bits are not part of it.
C14_ContentRoundTrip ==
    (cmd = "unpack" /\ pc = "done") =>
        /\ RegFiles(outdir[Web.OutputDirectory]) \subseteq RegFiles(deployed[Web.DeployLocation])
        /\ \A e \in outdir[Web.OutputDirectory].files :
             e.type = "dir" => \E d \in deployed[Web.DeployLocation].files :
                                    d.path = e.path /\ d.type = "dir"

C14_Witness ==
    /\ cmd = "unpack" /\ pc = "done"
    /\ File("a.txt", 2, Mode664) \in outdir[Web.OutputDirectory].files
    /\ File("a.txt", 2, Mode644) \in deployed[Web.DeployLocation].files

\* C15: for the local adapter, a store of an existing file that meets no I/O
\* failure leaves under the name exactly the content of the file and changes
\* no file outside the repository; a retrieve that meets no I/O failure, for
\* a name that has an entry, returns no error, leaves at the destination
\* exactly the content of the entry, has the destination's directory exist
\* afterwards, and leaves the repository as it was.
C15_LocalRetrieveCopies ==
    [][\A name \in LibNames :
        /\ \A path \in LibSources :
             (LocalStore(path, name, "ok") /\ path \in DOMAIN tmp) =>
                 ~last'.err /\ repo'[name] = tmp[path] /\ tmp' = tmp
        /\ \A dest \in LibDests :
             (LocalRetrieve(name, dest, "ok") /\ LocalArtifactExists(repo, name)) =>
                 /\ ~last'.err
                 /\ dest \in DOMAIN tmp' /\ tmp'[dest] = repo[name]
                 /\ filepathDir(dest) \in Locs => deployed'[filepathDir(dest)].exists
                 /\ repo' = repo]_vars

\* the retrieve that follows the store of the second file has written it into
\* the directory it made
C15_Witness ==
    /\ last.op = "retrieve" /\ last.backend = "local" /\ last.afterStore /\ ~last.err
    /\ LibDestInDir \in DOMAIN tmp /\ LibDest \notin DOMAIN tmp
    /\ tmp[LibDestInDir] = LibFiles[2] /\ repo[last.name] = LibFiles[2]
    /\ deployed[Web.DeployLocation].exists

\* C16: a retrieve, of either adapter, for a name that has no entry returns an
\* error and leaves every file and every directory outside the repository as
\* it was: the destination is neither created nor overwritten.
C16_RetrieveMissing ==
    [][\A name \in LibNames, dest \in LibDests, io \in RetrieveOutcomes :
        /\ (LocalRetrieve(name, dest, io) /\ ~LocalArtifactExists(repo, name)) =>
              last'.err /\ tmp' = tmp /\ deployed' = deployed
        /\ (S3Retrieve(name, dest, io)
              /\ getObjectKey(s3PathPrefix, name) \notin DOMAIN bucket) =>
              last'.err /\ tmp' = tmp /\ deployed' = deployed]_vars

\* a retrieve of a missing name has failed over a destination that an
\* earlier retrieve had written
C16_Witness ==
    /\ last.op = "retrieve" /\ last.backend = "local" /\ last.err
    /\ ~LocalArtifactExists(repo, last.name)
    /\ LibDest \in DOMAIN tmp /\ tmp[LibDest] = LibFiles[1] /\ LibDestInDir \notin DOMAIN tmp
    /\ ~deployed[Web.DeployLocation].exists

\* C17: a call of GetArtifactName that follows a call for the same unit, with
\* the index holding the same content and the configuration unchanged,
\* returns the same result, identifier included, whatever happened to
\* modification times and untracked files in between.
C17_SameContentSameName ==
    [][\A n \in HashNames :
        (HashName(n) /\ last.op = "name" /\ last.name = n /\ last.at = Index(tracked)) =>
            last'.err = last.err /\ last'.id = last.id]_vars

\* an identifier was computed again after a touch or an untracked file
C17_Witness ==
    /\ last.op = "name" /\ last.again /\ ~last.err
    /\ \E d \in Dirs : tracked[d].mtime > 0 /\ tracked[d].untracked

\* the sections of the configuration that have the name
SectionsNamed(name) ==
    { k \in 1..Len(config.Artifacts) : config.Artifacts[k].Name = name }

\* C18: GetArtifactName for a name that a section of the configuration has
\* returns, when every directory of the section exists, no error and the
\* identifier made of the section's prefix, the fingerprint of the section's
\* directories and ".tar.gz"; for a name that no section has it returns an
\* error and the empty identifier.
C18_NameOfUnit ==
    last.op = "name" =>
        IF SectionsNamed(last.name) = {}
        THEN last.err /\ last.id = NoName
        ELSE LET u == config.Artifacts[CHOOSE k \in SectionsNamed(last.name) : TRUE]
                 dirs == { u.Directories[k] : k \in 1..Len(u.Directories) }
             IN  IF \A d \in dirs : last.at[d] # 0
                 THEN /\ ~last.err
                      /\ last.id = [prefix |-> u.ArtifactPrefix,
                                    hash |-> { <<d, last.at[d]>> : d \in dirs },
                                    ext |-> ".tar.gz"]
                 ELSE last.err /\ last.id = NoName

\* the unit named "admin", whose prefix is "web", has been named on changed
\* content
C18_Witness ==
    /\ last.op = "name" /\ last.name = "admin" /\ SectionsNamed("admin") # {}
    /\ ~last.err
    /\ last.id = [prefix |-> "web", hash |-> {<<"src/web", 2>>}, ext |-> ".tar.gz"]

\* C19: with the --local flag and a root in the configuration the constructor
\* returns the local adapter on that root, whatever the adapter type is;
\* without the flag an adapter that is returned is the one the type names,
\* made of the configured root (local) or bucket and path prefix (S3), and it
\* is returned whenever its options are there and, for S3, the AWS
\* configuration loads.
C19_AdapterSelected ==
    last.op = "new" =>
        LET r == config.Repository
            isLocal == r.Adapter \in {"Local", "local"}
            isS3 == r.Adapter \in {"S3", "s3"}
        IN  /\ (last.useLocal /\ r.Root # "") =>
                 ~last.err /\ last.adapter = NewLocalRepositoryAdapter(r.Root)
            /\ (~last.useLocal /\ isLocal /\ r.Root # "") =>
                 ~last.err /\ last.adapter = NewLocalRepositoryAdapter(r.Root)
            /\ (~last.useLocal /\ isS3 /\ r.Region # "" /\ r.BucketName # "" /\ last.awsOk) =>
                 /\ ~last.err
                 /\ last.adapter = [kind |-> "s3", root |-> "", bucketName |-> r.BucketName,
                                    pathPrefix |-> r.PathPrefix]
            /\ (~last.useLocal /\ ~last.err) =>
                 /\ last.adapter.kind = "local" <=> isLocal
                 /\ last.adapter.kind = "s3" <=> isS3

\* the flag has overridden an S3 section
C19_Witness ==
    /\ last.op = "new" /\ last.useLocal /\ ~last.err
    /\ config.Repository.Adapter = "s3" /\ config.Repository.Region # ""
    /\ config.Repository.BucketName # ""
    /\ last.adapter.kind = "local" /\ last.adapter.root = "repo"

\* the constructor fails on the section whatever the flag is
BadRepo ==
    \A useLocal \in BOOLEAN, awsOk \in BOOLEAN :
        NewRepositoryAdapter(config.Repository, useLocal, awsOk).err

\* C20: the constructor returns an error and no adapter when the local root
\* is empty (local type, or --local), when the S3 region or bucket is empty,
\* and when the type is unknown; a command that uses the repository, started
\* on a configuration the constructor fails on, ends fatally with a non-zero exit status, with no
\* unit or asset selected, no existence check, build, retrieve or store made
\* and nothing changed in the repository, the temporary files, the output
\* directories or the deploy locations.
C20_AdapterErrorAborts ==
    /\ [](\A useLocal \in BOOLEAN, awsOk \in BOOLEAN :
            LET r == config.Repository
                a == NewRepositoryAdapter(r, useLocal, awsOk)
                isLocal == r.Adapter \in {"Local", "local"}
                isS3 == r.Adapter \in {"S3", "s3"}
            IN  /\ ((useLocal \/ isLocal) /\ r.Root = "") => a.err
                /\ (~useLocal /\ isS3 /\ (r.Region = "" \/ r.BucketName = "")) => a.err
                /\ (~useLocal /\ ~isLocal /\ ~isS3) => a.err
                /\ a.err => a.adapter = NoAdapter)
    /\ []((cmd \in {"should-build", "do-builds", "do-deploys", "deploy-assets"} /\ BadRepo)
            => obs.adapterErr)
    /\ [](obs.adapterErr =>
            /\ pc = "fatal" /\ exitStatus # 0
            /\ artifacts = <<>> /\ assets = <<>>
            /\ obs = [NoObs EXCEPT !.logStart = Len(storeLog), !.adapterErr = TRUE])
    /\ [][(obs'.adapterErr /\ runs' # runs) =>
            /\ repo' = repo /\ bucket' = bucket /\ tmp' = tmp
            /\ outdir' = outdir /\ deployed' = deployed /\ storeLog' = storeLog]_vars

\* do-deploys has been started on a configuration with an unknown adapter type
C20_Witness ==
    /\ cmd = "do-deploys" /\ obs.adapterErr /\ pc = "fatal" /\ exitStatus = 1
    /\ config.Repository.Adapter = "ftp"

\* the pairs (configured name, flag entry) that are equal once both are
\* lower-cased and the blanks around the flag entry are dropped
EqualFold ==
    { <<"web", "web">>, <<"web", "WEB">>, <<"api", " Api ">>, <<"api", "API">>,
      <<"API", " Api ">>, <<"API", "API">>,
      <<"Logo", "LOGO">>, <<"Logo", "logo">>, <<"font", " Font ">> }

Named(name, list) == \E j \in 1..Len(list) : <<name, list[j]>> \in EqualFold

\* result is all restricted to the indexes M, in the order of all
Restricted(result, all, M) ==
    /\ Len(result) = Cardinality(M)
    /\ \A n \in 1..Len(result) :
         result[n] = all[CHOOSE k \in M : Cardinality({m \in M : m < k}) = n - 1]

\* C21: GetByArtifactsByNameWithFilter returns, in configuration order and each
\* once, exactly the units whose name equals some filter entry after both are
\* lower-cased and the entry is trimmed (a proper substring does not match);
\* an empty filter list returns every unit, a filter naming no unit none
C21_SelectExact ==
    last.op = "selected" =>
        LET all == config.Artifacts
            M == { k \in 1..Len(all) :
                     Len(last.filter) = 0 \/ Named(all[k].Name, last.filter) }
        IN  /\ Restricted(last.result, all, M)
            /\ Len(last.filter) = 0 => last.result = all
            /\ last.filter \in {<<"we">>, <<"nothing">>, <<"nothing", "we">>}
                  => last.result = <<>>

\* the entries are given in the reverse of the configured order, in another
\* case and with blanks: both units are selected, in the configured order
C21_Witness ==
    /\ last.op = "selected"
    /\ last.filter = <<" Api ", "WEB">>
    /\ Len(last.result) = 2
    /\ last.result[1].Name = "web"
    /\ last.result[2].Name = "API"

\* C23: filterAssetsByNameWithExclusion returns, in configuration order, exactly
\* the assets that no exclude entry names and, when the filter is not empty,
\* that some filter entry names (case-insensitive, whole name); an asset named
\* by both is left out; with neither list every asset is returned
C23_ExcludeWins ==
    last.op = "filtered" =>
        LET all == config.Assets
            M == { k \in 1..Len(all) :
                     /\ ~Named(all[k].Name, last.exclude)
                     /\ Len(last.filter) = 0 \/ Named(all[k].Name, last.filter) }
        IN  /\ Restricted(last.result, all, M)
            /\ Len(last.filter) = 0 /\ Len(last.exclude) = 0 => last.result = all

\* the filter names both assets, the exclude list one of them
C23_Witness ==
    /\ last.op = "filtered"
    /\ last.filter = <<"LOGO", " Font ">>
    /\ last.exclude = <<"logo">>
    /\ Len(last.result) = 1
    /\ last.result[1].Name = "font"

\* the filter names no unit of the configuration
NamesNone(f) ==
    /\ Len(f) > 0
    /\ \A k \in 1..Len(config.Artifacts) : ~Named(config.Artifacts[k].Name, f)

\* the step starts should-build, do-builds or do-deploys with the filter f and
\* gets its repository adapter
StartsWith(f) ==
    /\ ~obs'.adapterErr
    /\ \E useLocal \in BOOLEAN, awsOk \in BOOLEAN :
         \/ StartShouldBuild(f, useLocal, awsOk)
         \/ StartDoDeploys(f, useLocal, awsOk)
         \/ \E frc \in BOOLEAN : StartDoBuilds(f, frc, useLocal, awsOk)

\* the invocation has reported that nothing was found and has ended at once
NothingDone ==
    artifacts' = <<>> /\ obs'.noneFound /\ pc' = "done" /\ exitStatus' = 0

\* C22 for should-build, do-builds, do-deploys and hash-application: with the
\* filter unset every unit of the configuration is selected; with a filter
\* that names no unit "No artifacts found" is reported and the command ends
\* without acting; the latter holds for artifact-names too
C22_OtherCommands ==
    [][/\ StartsWith(<<>>) \/ HashApplication(<<>>) => artifacts' = config.Artifacts
       /\ \A f \in Filters :
            NamesNone(f) /\ (StartsWith(f) \/ HashApplication(f) \/ ArtifactNames(f))
                => NothingDone]_vars

\* C22: artifact-names, hash-application, should-build, do-builds and
\* do-deploys select every unit of the configuration when the filter flag is
\* unset, and report "No artifacts found" without acting when the filter
\* names no unit
C22_FilterUnsetOrUnmatched ==
    [][/\ StartsWith(<<>>) \/ HashApplication(<<>>) \/ ArtifactNames(<<>>)
            => artifacts' = config.Artifacts
       /\ \A f \in Filters :
            NamesNone(f) /\ (StartsWith(f) \/ HashApplication(f) \/ ArtifactNames(f))
                => NothingDone]_vars

\* artifact-names has run with the filter unset and has found nothing
C22_NamesUnsetFindsNothing ==
    cmd = "artifact-names" /\ pc = "done" /\ obs.noneFound /\ artifacts = <<>>

\* C24: do-cleanup removes every entry below the deploy location of each
\* selected asset and keeps the directory itself; it changes no other deploy
\* location; a selected asset whose deploy location does not exist is passed
\* over without error and the loop goes on with the next asset
C24_CleanupEmptiesSelected ==
    /\ [](cmd = "do-cleanup" =>
            /\ \A k \in obs.cleaned : deployed[assets[k].DeployLocation] = Tree({})
            /\ \A k \in DOMAIN obs.existed :
                 ~obs.existed[k] => ~deployed[assets[k].DeployLocation].exists
            /\ pc = "done" => /\ exitStatus = 0
                              /\ DOMAIN obs.existed = 1..Len(assets)
                              /\ obs.cleaned = { k \in 1..Len(assets) : obs.existed[k] })
    /\ [][cmd' = "do-cleanup" =>
            /\ \A l \in Locs :
                 deployed'[l] # deployed[l] =>
                    cmd = "do-cleanup" /\ pc = "clean" /\ l = assets[i].DeployLocation
            /\ pc = "clean" /\ ~deployed[assets[i].DeployLocation].exists =>
                 /\ deployed' = deployed
                 /\ i' = i + 1
                 /\ pc' = IF i = Len(assets) THEN "done" ELSE "clean"]_vars

\* the first selected asset has no deploy location and is passed over, the
\* second one's is emptied, the invocation ends well
C24_Witness ==
    /\ cmd = "do-cleanup" /\ pc = "done" /\ exitStatus = 0
    /\ Len(assets) = 2
    /\ ~obs.existed[1] /\ ~deployed[assets[1].DeployLocation].exists
    /\ obs.cleaned = {2} /\ deployed[assets[2].DeployLocation] = Tree({})

\* C25: deploy-assets asks the repository for each selected asset under the
\* asset's configured file name as it stands, and copies the blob stored under
\* that name; an asset the repository does not hold ends the invocation with
\* a non-zero status, and neither it nor any later asset is retrieved or
\* unpacked
C25_AssetByFilename ==
    /\ [](cmd = "deploy-assets" =>
            /\ \A k \in DOMAIN obs.existed :
                 /\ k \in obs.retrieved \cup obs.extracted => obs.existed[k]
                 /\ ~obs.existed[k] =>
                      /\ pc = "fatal" /\ exitStatus = 1
                      /\ \A j \in k..Len(assets) :
                           j \notin obs.retrieved /\ j \notin obs.extracted
            /\ obs.retrieved \cup obs.extracted \subseteq DOMAIN obs.existed)
    /\ [][cmd = "deploy-assets" /\ runs' = runs =>
            /\ pc = "check" =>
                 obs'.existed[i] = (assets[i].Filename \in DOMAIN repo)
            /\ pc = "retrieve" /\ pc' = "extract" =>
                 tmp'[tempTarGzPath] = repo[assets[i].Filename]
            /\ pc = "fatal" => UNCHANGED <<deployed, tmp, obs>>]_vars

\* the first selected asset has not been uploaded, the second has: the
\* invocation has ended at the first, the second has not been looked at
C25_Witness ==
    /\ cmd = "deploy-assets" /\ pc = "fatal" /\ exitStatus = 1
    /\ Len(assets) = 2
    /\ assets[2].Filename \in DOMAIN repo
    /\ DOMAIN obs.existed = {1} /\ ~obs.existed[1]
    /\ obs.retrieved = {} /\ obs.extracted = {}
    /\ ~deployed[assets[2].DeployLocation].exists

\* the states of a selected unit in a do-builds invocation
ExistsSkipped(k) == k \in DOMAIN obs.existed /\ ~buildNeeded[artifacts[k].Name]

NotChecked(k) == k \notin DOMAIN obs.existed

BuildPending(k) ==
    /\ k \in DOMAIN obs.existed /\ buildNeeded[artifacts[k].Name]
    /\ k \notin obs.running \cup obs.ran

BuildRunning(k) == k \in obs.running

BuildFailed(k) == k \in obs.failed

Stored(k) == k \in obs.stored

StoreFailed(k) == k \in obs.storeCalled \ obs.stored

\* the build command has exited zero; no store has been called, because there
\* is no archive: os.CreateTemp or zipDirectory has failed
NotPacked(k) == k \in obs.tempFailed \cup obs.packFailed

\* the build has succeeded and nothing has been said about the unit since
AfterBuild(k) ==
    /\ k \in obs.ran \ obs.failed
    /\ k \notin obs.storeCalled \cup obs.tempFailed \cup obs.packFailed

ExactlyOne(flags) == Cardinality({ n \in DOMAIN flags : flags[n] }) = 1

\* C26 as stated: when the build loop of do-builds has ended, every selected
\* unit is in exactly one of ExistsSkipped, BuildFailed, Stored, StoreFailed
C26_FourTerminalStates ==
    (cmd = "do-builds" /\ pc = "done") =>
        \A k \in Sel :
            ExactlyOne(<<ExistsSkipped(k), BuildFailed(k), Stored(k), StoreFailed(k)>>)

\* C26, amended: a do-builds invocation whose build commands return ends;
\* when its build loop has ended every selected unit is in exactly one of
\* ExistsSkipped, BuildFailed, Stored, StoreFailed, or built but not packed
\* (no temporary file or no archive, reported, never handed to the store);
\* none is unchecked, pending, running, or built with nothing said since;
\* and a stored unit's command has exited zero and its output was packed
C26_TerminatesClassified ==
    /\ (cmd = "do-builds" /\ pc \notin {"done", "fatal"}) ~> (pc \in {"done", "fatal"})
    /\ []((cmd = "do-builds" /\ pc = "done") =>
            \A k \in Sel :
                /\ ExactlyOne(<<ExistsSkipped(k), BuildFailed(k), Stored(k), StoreFailed(k),
                                NotPacked(k)>>)
                /\ ~NotChecked(k) /\ ~BuildPending(k) /\ ~BuildRunning(k) /\ ~AfterBuild(k))
    /\ [](cmd = "do-builds" =>
            \A k \in obs.stored : k \in obs.ran \ obs.failed /\ k \in obs.packed)

\* one unit is stored, the other was built and could not be packed
C26_Witness ==
    /\ cmd = "do-builds" /\ pc = "done"
    /\ Len(artifacts) = 2
    /\ \E j, k \in Sel : Stored(j) /\ NotPacked(k) /\ k \in obs.ran \ obs.failed

\* a directory of the unit is missing: its identifier cannot be computed
Unhashable(unit) == \E n \in 1..Len(unit.Directories) : tracked[unit.Directories[n]].index = 0

\* C27: when the identifier of a selected unit cannot be computed, do-builds
\* ends at once with a non-zero status; no build command has been started
\* and no store called in that invocation, and its steps have left the
\* repository as it was
C27_IdentifierFailureAborts ==
    /\ [](cmd = "do-builds" /\ pc = "fatal" =>
            /\ exitStatus = 1
            /\ obs.started = <<>> /\ obs.ran = {} /\ obs.storeCalled = {}
            /\ Len(storeLog) = obs.logStart)
    /\ [](cmd = "do-builds" /\ obs.started # <<>> => DOMAIN obs.existed = Sel)
    /\ [][cmd = "do-builds" /\ pc = "check" =>
            /\ repo' = repo /\ outdir' = outdir /\ tmp' = tmp
            /\ Unhashable(artifacts[i]) => pc' = "fatal" /\ exitStatus' = 1]_vars

\* the first unit has been checked, the identifier of the second could not be
\* computed: the invocation has ended, nothing was built or stored
C27_Witness ==
    /\ cmd = "do-builds" /\ pc = "fatal" /\ ~obs.adapterErr
    /\ Len(artifacts) = 2 /\ i = 2
    /\ DOMAIN obs.existed = {1} /\ buildNeeded[artifacts[1].Name]
    /\ Unhashable(artifacts[2])
    /\ obs.started = <<>> /\ DOMAIN repo = {AssetName}

\* the identifier of a unit over the working tree as it is now
IdNow(unit) ==
    [prefix |-> unit.ArtifactPrefix,
     hash |-> { <<unit.Directories[n], tracked[unit.Directories[n]].index>> :
                  n \in 1..Len(unit.Directories) },
     ext |-> ".tar.gz"]

\* C28: do-builds has two phases: the identifier and the build-needed
\* decision of every selected unit are computed, from the working tree and
\* the repository as they are then, before the first build command starts;
\* afterwards neither changes, whatever a build command does to the tracked
\* content or to the repository; a unit is built exactly when its decision
\* says so, and its archive is stored under its pre-computed identifier
C28_TwoPhase ==
    /\ [](cmd = "do-builds" /\ obs.started # <<>> =>
            \A k \in Sel : /\ artifacts[k].Name \in DOMAIN artifactNames
                            /\ artifacts[k].Name \in DOMAIN buildNeeded)
    /\ [][cmd = "do-builds" /\ runs' = runs =>
            /\ pc = "check" /\ pc' # "fatal" =>
                 /\ artifactNames'[artifacts[i].Name] = IdNow(artifacts[i])
                 /\ buildNeeded'[artifacts[i].Name] =
                      (force \/ IdNow(artifacts[i]) \notin DOMAIN repo)
            /\ pc # "check" =>
                 artifactNames' = artifactNames /\ buildNeeded' = buildNeeded
            /\ pc = "build" /\ i <= Len(artifacts) =>
                 (pc' = "running") = buildNeeded[artifacts[i].Name]
            /\ pc = "store" =>
                 /\ \A n \in (DOMAIN repo') \ {artifactNames[artifacts[i].Name]} :
                      n \in DOMAIN repo /\ repo'[n] = repo[n]
                 /\ i \in obs'.stored =>
                      obs'.storedAs[i].name = artifactNames[artifacts[i].Name]]_vars

\* while the command of a unit ran, the content its identifier is
\* computed from was changed; the archive has been stored under the
\* identifier computed before
C28_Witness ==
    /\ cmd = "do-builds" /\ pc = "done"
    /\ \E k \in obs.stored :
         /\ obs.storedAs[k].name # IdNow(artifacts[k])
         /\ obs.storedAs[k].name \in DOMAIN repo
         /\ IdNow(artifacts[k]) \notin DOMAIN repo

\* C29: whenever ArtifactExists of the local backend returns true for a name,
\* the entry of that name holds the whole content of a file that StoreArtifact
\* was given; a store that failed while copying is not seen as existing
C29_ExistsMeansComplete ==
    (last.op = "exists" /\ last.backend = "local" /\ last.exists) =>
        \E p \in LibSources \cap DOMAIN tmp : repo[last.name] = tmp[p]

\* ArtifactExists has returned true for an entry that a failed copy left behind
C29_TruncatedExists ==
    /\ last.op = "exists" /\ last.backend = "local" /\ last.exists
    /\ repo[last.name] = Truncated

\* C30: the repository is written by do-builds alone, in its store step: no
\* step of should-build, artifact-names, hash-application, do-deploys,
\* deploy-assets or do-cleanup changes the entries of the repository or their
\* contents; and build commands are run by do-builds alone: no other command
\* starts one or changes an output directory
C30_OnlyDoBuildsWrites ==
    /\ [](cmd # "do-builds" =>
            obs.started = <<>> /\ obs.running = {} /\ obs.ran = {} /\ obs.storeCalled = {})
    /\ [][/\ repo' # repo => cmd = "do-builds" /\ pc = "store" /\ cmd' = cmd
          /\ storeLog' # storeLog => cmd = "do-builds" /\ pc = "store"
          /\ outdir' # outdir => cmd = "do-builds" /\ pc = "running"
          /\ cmd' \in {"should-build", "artifact-names", "hash-application", "do-deploys",
                       "deploy-assets", "do-cleanup"} => repo' = repo /\ outdir' = outdir]_vars

\* units stored by do-builds have been deployed by do-deploys; the
\* repository holds what it held when do-deploys started
C30_Witness ==
    /\ cmd = "do-deploys" /\ pc = "done"
    /\ obs.extracted # {} /\ obs.ran = {}
    /\ Len(storeLog) > 0 /\ obs.logStart = Len(storeLog)
    /\ \A k \in obs.extracted : artifactNames[artifacts[k].Name] \in DOMAIN repo

\* C11: in do-deploys, once the artifact of a selected unit has been found
\* missing the invocation has ended fatally with nothing retrieved and nothing
\* unpacked; and no step of do-deploys writes a temporary file or a deploy
\* location unless the artifact of every selected unit existed at the check.
C11_NoPartialDeploy ==
    /\ []((cmd = "do-deploys" /\ \E k \in DOMAIN obs.existed : ~obs.existed[k]) =>
            /\ pc = "fatal" /\ exitStatus # 0
            /\ obs.retrieved = {} /\ obs.extracted = {}
            /\ DOMAIN tmp = {})
    /\ [][(cmd = "do-deploys" /\ cmd' = "do-deploys" /\ runs' = runs
            /\ (deployed' # deployed \/ tmp' # tmp)) =>
              \A k \in Sel : k \in DOMAIN obs.existed /\ obs.existed[k]]_vars

C11_Witness ==
    /\ cmd = "do-deploys" /\ pc = "fatal"
    /\ Len(artifacts) = 2
    /\ DOMAIN obs.existed = {1, 2} /\ obs.existed[1] /\ ~obs.existed[2]
    /\ deployed[artifacts[1].DeployLocation] = NoDir

\* C12: in do-deploys, when the retrieve, the creation of the deploy directory
\* or the unpack of a unit has failed, the invocation has ended fatally with a
\* non-zero status, and no unit after the failed one has been retrieved or
\* unpacked.
C12_DeployFailureFatal ==
    (cmd = "do-deploys" /\ obs.failed # {}) =>
        /\ pc = "fatal" /\ exitStatus # 0
        /\ \A f \in obs.failed :
             /\ obs.retrieved \subseteq 1..f
             /\ obs.extracted \subseteq 1..(f - 1)

C12_Witness ==
    /\ cmd = "do-deploys" /\ pc = "fatal"
    /\ Len(artifacts) = 2
    /\ obs.failed = {1} /\ obs.retrieved = {1} /\ obs.extracted = {}

====
